---- MODULE Spec2Model ----
(***************************************************************************)
(* Lineage viewer (src/app.py): extract_lineage_graph turns a list of      *)
(* OpenLineage run events into a node mapping and an edge list;            *)
(* get_lineage_subgraph restricts such a graph to the ancestors and        *)
(* descendants of a selected table.  Batch ingestion                       *)
(* (src/loadMongoDBFinal.py): process_ingestion_with_file_move uploads the *)
(* JSON files of a directory to MongoDB and moves them away, and           *)
(* retrieve_and_print_json_getlatest reads the latest COMPLETE event of    *)
(* each job back.  Metadata catalogue (src/SQLLite_Ingestion.py): the      *)
(* tables of the SQLite files are listed in database_metadata.csv.         *)
(*                                                                         *)
(* Specifications: Spec (one extraction, step by step), SpecRestrict (one  *)
(* restriction of any graph), SpecRestrictClosed (the same on graphs whose *)
(* edges run between their own nodes), SpecViewer (the viewer's data,      *)
(* extracted and then restricted), SpecPipeline (the viewer's filters and  *)
(* the network drawn), SpecClassify (the classification of any name and    *)
(* namespace), SpecCalls (two extractions interleaved), SpecIngest (runs   *)
(* of the batch ingestion), SpecRetrieve (the aggregation) and             *)
(* SpecMetadata (table loads and catalogue extractions).                   *)
(*                                                                         *)
(* Data representation.  A Python str is a sequence of one-character       *)
(* strings, so that concatenation, substring search, split and lower() are *)
(* computed and two different (namespace, name) pairs can yield the same   *)
(* id.  A Python dict (an event, a dataset reference, a facet, a node) is  *)
(* a record whose DOMAIN is the set of keys that are present; d.get(k, v)  *)
(* is Get(d, k, v).  A Python list is a sequence.  The node mapping is an  *)
(* insertion-ordered dict: a sequence of node records in insertion order,  *)
(* keyed by their "id" field.  An argument that may be None is <<>> for    *)
(* None and <<v>> for the value v.                                         *)
(***************************************************************************)
EXTENDS Integers, Sequences, FiniteSets, TLC

VARIABLES
    events,     \* extract: the part of lineage_data['events'] consumed so far
    nodes,      \* extract: the accumulator `nodes` (ordered dict)
    edges,      \* extract: the accumulator `edges` (list of pairs)
    pc,         \* position of the call
    g_nodes,    \* get_lineage_subgraph: argument `nodes`
    g_edges,    \* get_lineage_subgraph: argument `edges`
    selected,   \* get_lineage_subgraph: argument `selected_table` (<<>> for None, <<s>> for the str s)
    result,     \* get_lineage_subgraph: the returned pair
    session_data,   \* viewer: st.session_state["data"], handed to extract_lineage_graph
    ds_namespace,   \* classification: the namespace of a dataset reference
    ds_name,        \* classification: its name
    classified,     \* classification: the layer, source_system and table_name computed
    frames,     \* concurrent calls: per call, its event list and its position in it
    accs,       \* concurrent calls: the accumulator objects (nodes, edges)
    to_dir,     \* ingestion: the files of <base_dir>/TO, each with its lines
    done_dir,   \* ingestion: the files of <base_dir>/DONE
    file_paths, \* ingestion: the list glob returned
    file_idx,   \* ingestion: how many entries of file_paths the loop has taken
    success,    \* ingestion: what upload_json_to_mongodb returned for the current file
    collection, \* ingestion: the documents of the MongoDB collection
    total_files_processed,
    total_files_successful,
    runs,       \* ingestion: calls of process_ingestion_with_file_move begun so far
    databases,      \* metadata: per SQLite file that exists, the names of its tables
    csv_file,       \* metadata: the rows of database_metadata.csv (<<>> while there is no file)
    all_metadata,   \* metadata: the rows the last extraction collected
    selected_source_system,     \* viewer: the value of the source system selectbox (<<>> before the choice)
    net     \* viewer: what create_interactive_graph built (<<>> before the call)

extractVars == <<events, nodes, edges>>

subgraphVars == <<g_nodes, g_edges, selected, result>>

classifyVars == <<ds_namespace, ds_name, classified>>

callVars == <<frames, accs>>

ingestVars ==
    <<to_dir, done_dir, file_paths, file_idx, success, collection,
      total_files_processed, total_files_successful, runs>>

metadataVars == <<databases, csv_file, all_metadata>>

pipelineVars == <<selected_source_system, net>>

vars ==
    <<extractVars, pc, subgraphVars, session_data, classifyVars, callVars, ingestVars,
      metadataVars, pipelineVars>>

---------------------------------------------------------------------------
(* Python values *)

\* {} , [] and '' : the empty dict, list and str
Empty == <<>>

\* d.get(k, default)
Get(d, k, default) == IF k \in DOMAIN d THEN d[k] ELSE default

\* d[k] = v
DictSet(d, k, v) == [x \in (DOMAIN d) \cup {k} |-> IF x = k THEN v ELSE d[x]]

\* bool(v) for a str, list or dict
Truthy(v) == v # Empty

\* A value of a field that holds a number in one place and a str in another
\* (row_count, size): tagged by its Python type, so that 100 and 'N/A' compare
\* as unequal.
PyInt(n) == [int |-> n]
PyStr(s) == [str |-> s]

\* sub in s, for two str
Contains(s, sub) ==
    \E i \in 0..(Len(s) - Len(sub)) : \A j \in 1..Len(sub) : s[i + j] = sub[j]

\* s.startswith(p)
StartsWith(s, p) == Len(s) >= Len(p) /\ \A j \in 1..Len(p) : s[j] = p[j]

UpperLetters ==
    <<"A", "B", "C", "D", "E", "F", "G", "H", "I", "J", "K", "L", "M",
      "N", "O", "P", "Q", "R", "S", "T", "U", "V", "W", "X", "Y", "Z">>

LowerLetters ==
    <<"a", "b", "c", "d", "e", "f", "g", "h", "i", "j", "k", "l", "m",
      "n", "o", "p", "q", "r", "s", "t", "u", "v", "w", "x", "y", "z">>

\* the lower-case letter of each upper-case letter
UpperToLower ==
    [c \in {UpperLetters[k] : k \in 1..26} |->
        LowerLetters[CHOOSE k \in 1..26 : UpperLetters[k] = c]]

\* s.lower()
Lower(s) ==
    [i \in 1..Len(s) |-> IF s[i] \in DOMAIN UpperToLower THEN UpperToLower[s[i]] ELSE s[i]]

\* s.split('.')[-1] : what follows the last '.', the whole of s when it has none
LastSegment(s) ==
    LET dots == {i \in 1..Len(s) : s[i] = "."}
    IN  IF dots = {} THEN s
        ELSE LET last == CHOOSE i \in dots : \A j \in dots : j <= i
             IN  SubSeq(s, last + 1, Len(s))

---------------------------------------------------------------------------
(* The state of the parts of the program that a specification leaves out *)

NoExtract == events = Empty /\ nodes = Empty /\ edges = Empty

NoSubgraph == g_nodes = Empty /\ g_edges = Empty /\ selected = Empty /\ result = Empty

NoViewer == session_data = Empty

NoClassify == ds_namespace = Empty /\ ds_name = Empty /\ classified = Empty

NoCalls == frames = Empty /\ accs = Empty

NoMetadata == databases = Empty /\ csv_file = Empty /\ all_metadata = Empty

NoPipeline == selected_source_system = Empty /\ net = Empty

NoIngest ==
    /\ to_dir = Empty
    /\ done_dir = Empty
    /\ file_paths = Empty
    /\ file_idx = 0
    /\ success = FALSE
    /\ collection = Empty
    /\ total_files_processed = 0
    /\ total_files_successful = 0
    /\ runs = 0

---------------------------------------------------------------------------
(* String literals of src/app.py that several definitions share *)

s_slash      == <<"/">>
s_job_prefix == <<"j", "o", "b", "_">>
s_job        == <<"j", "o", "b">>
s_dataset    == <<"d", "a", "t", "a", "s", "e", "t">>
s_NA         == <<"N", "/", "A">>
s_Unknown_Job == <<"U", "n", "k", "n", "o", "w", "n", " ", "J", "o", "b">>
s_Databricks == <<"D", "a", "t", "a", "b", "r", "i", "c", "k", "s">>
s_All_Tables == <<"A", "l", "l", " ", "T", "a", "b", "l", "e", "s">>
s_bronze     == <<"b", "r", "o", "n", "z", "e">>
s_silver     == <<"s", "i", "l", "v", "e", "r">>
s_gold       == <<"g", "o", "l", "d">>
s_source     == <<"s", "o", "u", "r", "c", "e">>
s_unknown    == <<"u", "n", "k", "n", "o", "w", "n">>
s_mongodb    == <<"m", "o", "n", "g", "o", "d", "b">>
s_postgres   == <<"p", "o", "s", "t", "g", "r", "e", "s">>
s_sqlserver  == <<"s", "q", "l", "s", "e", "r", "v", "e", "r">>
s_PostgreSQL == <<"P", "o", "s", "t", "g", "r", "e", "S", "Q", "L">>
s_SQL_Server == <<"S", "Q", "L", " ", "S", "e", "r", "v", "e", "r">>
s_MongoDB    == <<"M", "o", "n", "g", "o", "D", "B">>
s_CSV_Files  == <<"C", "S", "V", " ", "F", "i", "l", "e", "s">>
s_Data_Lake  == <<"D", "a", "t", "a", " ", "L", "a", "k", "e">>
s_Unknown    == <<"U", "n", "k", "n", "o", "w", "n">>
s_s3_scheme  == <<"s", "3", ":", "/", "/">>

---------------------------------------------------------------------------
(* Classification of a dataset reference *)

\* determine_layer without lower(): the keywords match in lower case only
determine_layer_case_sensitive(name) ==
    IF Contains(name, s_bronze) \/ Contains(name, <<"r", "a", "w">>)
    THEN s_bronze
    ELSE IF Contains(name, s_silver) \/ Contains(name, <<"c", "l", "e", "a", "n">>)
    THEN s_silver
    ELSE IF Contains(name, s_gold)
            \/ Contains(name, <<"a", "n", "a", "l", "y", "t", "i", "c", "s">>)
    THEN s_gold
    ELSE IF \E x \in { s_postgres, s_sqlserver, s_mongodb,
                       <<"p", "u", "b", "l", "i", "c", ".">>,
                       <<"d", "b", "o", ".">>,
                       <<".", "c", "s", "v">> } : Contains(name, x)
    THEN s_source
    ELSE s_unknown

determine_layer(name) ==
    LET name_lower == Lower(name)
    IN  IF Contains(name_lower, s_bronze) \/ Contains(name_lower, <<"r", "a", "w">>)
        THEN s_bronze
        ELSE IF Contains(name_lower, s_silver)
                \/ Contains(name_lower, <<"c", "l", "e", "a", "n">>)
        THEN s_silver
        ELSE IF Contains(name_lower, s_gold)
                \/ Contains(name_lower, <<"a", "n", "a", "l", "y", "t", "i", "c", "s">>)
        THEN s_gold
        ELSE IF \E x \in { s_postgres, s_sqlserver, s_mongodb,
                           <<"p", "u", "b", "l", "i", "c", ".">>,
                           <<"d", "b", "o", ".">>,
                           <<".", "c", "s", "v">> } : Contains(name_lower, x)
        THEN s_source
        ELSE s_unknown

\* extract_source_system with the tests for 'postgres' and 'sqlserver' exchanged
extract_source_system_sqlserver_first(namespace) ==
    IF Contains(namespace, s_sqlserver) THEN s_SQL_Server
    ELSE IF Contains(namespace, s_postgres) THEN s_PostgreSQL
    ELSE IF Contains(namespace, s_mongodb) THEN s_MongoDB
    ELSE IF Contains(namespace, <<"f", "i", "l", "e", ":", "/", "/">>) THEN s_CSV_Files
    ELSE IF Contains(namespace, s_s3_scheme) THEN s_Data_Lake
    ELSE s_Unknown

extract_source_system(namespace) ==
    IF Contains(namespace, s_postgres) THEN s_PostgreSQL
    ELSE IF Contains(namespace, s_sqlserver) THEN s_SQL_Server
    ELSE IF Contains(namespace, s_mongodb) THEN s_MongoDB
    ELSE IF Contains(namespace, <<"f", "i", "l", "e", ":", "/", "/">>) THEN s_CSV_Files
    ELSE IF Contains(namespace, s_s3_scheme) THEN s_Data_Lake
    ELSE s_Unknown

\* get_source_table_name that looks for 's3://' anywhere in the namespace
get_source_table_name_s3_anywhere(namespace, name) ==
    IF Contains(namespace, s_s3_scheme) THEN name
    ELSE IF Contains(name, <<".">>) THEN LastSegment(name)
    ELSE name

get_source_table_name(namespace, name) ==
    IF StartsWith(namespace, s_s3_scheme) THEN name
    ELSE IF Contains(name, <<".">>) THEN LastSegment(name)
    ELSE name

---------------------------------------------------------------------------
(* The ordered dict `nodes` *)

\* id in nodes
HasKey(ns, id) == \E i \in DOMAIN ns : ns[i].id = id

\* list(nodes.keys())
KeyList(ns) == [i \in DOMAIN ns |-> ns[i].id]

\* set(nodes.keys())
Keys(ns) == {ns[i].id : i \in DOMAIN ns}

\* nodes[id]
NodeOf(ns, id) == ns[CHOOSE i \in DOMAIN ns : ns[i].id = id]

\* nodes[id] = node, for an id that is already a key: the key keeps its place
Replace(ns, id, node) == [i \in DOMAIN ns |-> IF ns[i].id = id THEN node ELSE ns[i]]

---------------------------------------------------------------------------
(* extract_lineage_graph: one event's job, then its inputs, then its outputs *)

job_name_of(event) == Get(Get(event, "job", Empty), "name", s_Unknown_Job)

job_id_of(event) == s_job_prefix \o job_name_of(event)

job_node(event) ==
    [ id |-> job_id_of(event), label |-> job_name_of(event), type |-> s_job,
      layer |-> s_job, source_system |-> s_Databricks, schema_fields |-> Empty,
      details |-> [ namespace |-> Get(Get(event, "job", Empty), "namespace", Empty),
                    event_time |-> Get(event, "eventTime", s_NA) ] ]

\* lines 85-94: the job node is inserted when its id is new, and left alone otherwise
add_job(ns, event) ==
    IF ~HasKey(ns, job_id_of(event)) THEN Append(ns, job_node(event)) ELSE ns

ds_namespace_of(ds) == Get(ds, "namespace", Empty)

ds_name_of(ds) == Get(ds, "name", Empty)

\* ds_id_of without the namespace: the name alone
ds_id_without_namespace(ds) == ds_name_of(ds)

ds_id_of(ds) == ds_namespace_of(ds) \o s_slash \o ds_name_of(ds)

schema_fields_of(ds) ==
    Get(Get(Get(ds, "facets", Empty), "schema", Empty), "fields", Empty)

output_stats_of(ds) == Get(Get(ds, "facets", Empty), "outputStatistics", Empty)

\* lines 103-110: the node of a dataset first seen as an input
input_node(ds) ==
    [ id |-> ds_id_of(ds), label |-> ds_name_of(ds), type |-> s_dataset,
      layer |-> determine_layer(ds_name_of(ds)),
      source_system |-> extract_source_system(ds_namespace_of(ds)),
      table_name |-> get_source_table_name(ds_namespace_of(ds), ds_name_of(ds)),
      schema_fields |-> IF Truthy(schema_fields_of(ds)) THEN schema_fields_of(ds) ELSE Empty,
      details |-> [ namespace |-> ds_namespace_of(ds), full_name |-> ds_id_of(ds),
                    row_count |-> PyStr(s_NA), size |-> PyStr(s_NA) ] ]

\* output_node with the details of the input branch: the statistics of the first
\* output reference are dropped
output_node_without_stats(ds) == input_node(ds)

\* lines 124-135: the node of a dataset first seen as an output
output_node(ds) ==
    [ id |-> ds_id_of(ds), label |-> ds_name_of(ds), type |-> s_dataset,
      layer |-> determine_layer(ds_name_of(ds)),
      source_system |-> extract_source_system(ds_namespace_of(ds)),
      table_name |-> get_source_table_name(ds_namespace_of(ds), ds_name_of(ds)),
      schema_fields |-> IF Truthy(schema_fields_of(ds)) THEN schema_fields_of(ds) ELSE Empty,
      details |-> [ namespace |-> ds_namespace_of(ds), full_name |-> ds_id_of(ds),
                    row_count |-> Get(output_stats_of(ds), "rowCount", PyStr(s_NA)),
                    size |-> Get(output_stats_of(ds), "size", PyStr(s_NA)) ] ]

\* merge_schema without the test of the stored schema: every non-empty
\* incoming schema is stored
merge_schema_latest(node, schema_fields) ==
    IF Truthy(schema_fields) THEN DictSet(node, "schema_fields", schema_fields) ELSE node

\* merge_schema without its condition: the incoming schema is always stored
merge_schema_unconditional(node, schema_fields) ==
    DictSet(node, "schema_fields", schema_fields)

\* lines 111-112 and 139-140: an empty stored schema adopts a non-empty incoming one
merge_schema(node, schema_fields) ==
    IF ~Truthy(Get(node, "schema_fields", Empty)) /\ Truthy(schema_fields)
    THEN DictSet(node, "schema_fields", schema_fields)
    ELSE node

\* update_stats without the fallback to the stored value
update_stats_without_fallback(node, output_stats) ==
    DictSet(node, "details",
            DictSet(DictSet(node.details, "row_count",
                            Get(output_stats, "rowCount", PyStr(s_NA))),
                    "size", Get(output_stats, "size", PyStr(s_NA))))

\* lines 137-138: the statistics of an existing node, overwritten or kept
update_stats(node, output_stats) ==
    LET d1 == DictSet(node.details, "row_count",
                      Get(output_stats, "rowCount",
                          Get(node.details, "row_count", PyStr(s_NA))))
        d2 == DictSet(d1, "size",
                      Get(output_stats, "size", Get(d1, "size", PyStr(s_NA))))
    IN  DictSet(node, "details", d2)

\* add_input without the test `ds_id not in nodes`: the node is built anew on
\* every reference
add_input_rebuilding(ns, input_ds) ==
    IF ~HasKey(ns, ds_id_of(input_ds))
    THEN Append(ns, input_node(input_ds))
    ELSE Replace(ns, ds_id_of(input_ds), input_node(input_ds))

\* lines 97-112: the node mapping after one input reference
add_input(ns, input_ds) ==
    IF ~HasKey(ns, ds_id_of(input_ds))
    THEN Append(ns, input_node(input_ds))
    ELSE Replace(ns, ds_id_of(input_ds),
                 merge_schema(NodeOf(ns, ds_id_of(input_ds)), schema_fields_of(input_ds)))

\* lines 117-140: the node mapping after one output reference
add_output(ns, output_ds) ==
    IF ~HasKey(ns, ds_id_of(output_ds))
    THEN Append(ns, output_node(output_ds))
    ELSE Replace(ns, ds_id_of(output_ds),
                 merge_schema(update_stats(NodeOf(ns, ds_id_of(output_ds)),
                                           output_stats_of(output_ds)),
                              schema_fields_of(output_ds)))

\* input_edge with the dataset's name in place of its id
input_edge_by_name(event, input_ds) == <<ds_name_of(input_ds), job_id_of(event)>>

\* line 114: edges.append((ds_id, job_id))
input_edge(event, input_ds) == <<ds_id_of(input_ds), job_id_of(event)>>

\* output_edge with its endpoints swapped
output_edge_reversed(event, output_ds) == <<ds_id_of(output_ds), job_id_of(event)>>

\* line 142: edges.append((job_id, ds_id))
output_edge(event, output_ds) == <<job_id_of(event), ds_id_of(output_ds)>>

RECURSIVE process_inputs(_, _, _)
\* lines 96-114: the loop over event.get('inputs', [])
process_inputs(acc, event, inputs) ==
    IF inputs = Empty THEN acc
    ELSE process_inputs([ nodes |-> add_input(acc.nodes, Head(inputs)),
                          edges |-> Append(acc.edges, input_edge(event, Head(inputs))) ],
                        event, Tail(inputs))

RECURSIVE process_outputs(_, _, _)
\* lines 116-142: the loop over event.get('outputs', [])
process_outputs(acc, event, outputs) ==
    IF outputs = Empty THEN acc
    ELSE process_outputs([ nodes |-> add_output(acc.nodes, Head(outputs)),
                           edges |-> Append(acc.edges, output_edge(event, Head(outputs))) ],
                         event, Tail(outputs))

\* lines 85-142: the body of the loop over the events
process_event(acc, event) ==
    process_outputs(
        process_inputs([ nodes |-> add_job(acc.nodes, event), edges |-> acc.edges ],
                       event, Get(event, "inputs", Empty)),
        event, Get(event, "outputs", Empty))

RECURSIVE process_events(_, _)
process_events(acc, evs) ==
    IF evs = Empty THEN acc ELSE process_events(process_event(acc, Head(evs)), Tail(evs))

\* lines 80-144: the whole call, on lineage_data
extract_lineage_graph(lineage_data) ==
    process_events([ nodes |-> Empty, edges |-> Empty ], Get(lineage_data, "events", Empty))

---------------------------------------------------------------------------
(* get_lineage_subgraph *)

\* G = nx.DiGraph(); G.add_edges_from(edges): the nodes of G are the endpoints
graph_nodes(es) == {es[i][1] : i \in DOMAIN es} \cup {es[i][2] : i \in DOMAIN es}

RECURSIVE bfs_forward(_, _, _)
\* breadth-first search along the edges: `seen` grows by the successors of `frontier`
bfs_forward(es, seen, frontier) ==
    LET next == {es[i][2] : i \in {j \in DOMAIN es : es[j][1] \in frontier}} \ seen
    IN  IF next = {} THEN seen ELSE bfs_forward(es, seen \cup next, next)

RECURSIVE bfs_backward(_, _, _)
\* breadth-first search against the edges
bfs_backward(es, seen, frontier) ==
    LET next == {es[i][1] : i \in {j \in DOMAIN es : es[j][2] \in frontier}} \ seen
    IN  IF next = {} THEN seen ELSE bfs_backward(es, seen \cup next, next)

\* descendants that stops at the direct successors
descendants_direct(es, source) ==
    {es[i][2] : i \in {j \in DOMAIN es : es[j][1] = source}} \ {source}

\* nx.descendants(G, source), for a source that is a node of G
descendants(es, source) == bfs_forward(es, {source}, {source}) \ {source}

\* ancestors that stops at the direct predecessors
ancestors_direct(es, source) ==
    {es[i][1] : i \in {j \in DOMAIN es : es[j][2] = source}} \ {source}

\* nx.ancestors(G, source), for a source that is a node of G
ancestors(es, source) == bfs_backward(es, {source}, {source}) \ {source}

\* target_index whose loop has no break: the last match stays
target_index_last_match(ns, selected_table) ==
    LET matches == {i \in DOMAIN ns :
                        ns[i].type = s_dataset /\ ns[i].table_name = selected_table}
    IN  IF matches = {} THEN 0 ELSE CHOOSE i \in matches : \A j \in matches : i >= j

\* target_index without the test of the node's type
target_index_any_type(ns, selected_table) ==
    LET matches == {i \in DOMAIN ns : ns[i].table_name = selected_table}
    IN  IF matches = {} THEN 0 ELSE CHOOSE i \in matches : \A j \in matches : i <= j

\* lines 153-157: the place in `nodes` of the first dataset node whose table_name
\* is the selected table, 0 when the loop ends without a match
target_index(ns, selected_table) ==
    LET matches == {i \in DOMAIN ns :
                        ns[i].type = s_dataset /\ ns[i].table_name = selected_table}
    IN  IF matches = {} THEN 0 ELSE CHOOSE i \in matches : \A j \in matches : i <= j

\* lineage_nodes that leaves the target out of the result
lineage_nodes_without_target(es, target_node_id) ==
    IF target_node_id \in graph_nodes(es)
    THEN ancestors(es, target_node_id) \cup descendants(es, target_node_id)
    ELSE {}

\* lines 162-166: the target, and its ancestors and descendants unless
\* nx.ancestors raises (the target is no node of G) and the except clause passes
lineage_nodes(es, target_node_id) ==
    IF target_node_id \in graph_nodes(es)
    THEN {target_node_id} \cup ancestors(es, target_node_id)
                          \cup descendants(es, target_node_id)
    ELSE {target_node_id}

\* filtered that leaves the edge list as it is
filtered_nodes_only(ns, es, keep) ==
    [ nodes |-> SelectSeq(ns, LAMBDA n : n.id \in keep), edges |-> es ]

\* lines 168-171
filtered(ns, es, keep) ==
    [ nodes |-> SelectSeq(ns, LAMBDA n : n.id \in keep),
      edges |-> SelectSeq(es, LAMBDA e : e[1] \in keep /\ e[2] \in keep) ]

\* get_lineage_subgraph whose first test leaves out the "All Tables" entry
get_lineage_subgraph_without_sentinel(ns, es, selected_table) ==
    IF selected_table = Empty \/ ~Truthy(selected_table[1])
    THEN [ nodes |-> ns, edges |-> es ]
    ELSE LET t == target_index(ns, selected_table[1])
         IN  IF t = 0 \/ ~Truthy(ns[t].id)
             THEN [ nodes |-> ns, edges |-> es ]
             ELSE filtered(ns, es, lineage_nodes(es, ns[t].id))

\* lines 146-171.  selected_table is <<>> for None and <<s>> for the str s.
get_lineage_subgraph(ns, es, selected_table) ==
    IF selected_table = Empty \/ ~Truthy(selected_table[1])
       \/ selected_table[1] = s_All_Tables
    THEN [ nodes |-> ns, edges |-> es ]
    ELSE LET t == target_index(ns, selected_table[1])
         IN  IF t = 0 \/ ~Truthy(ns[t].id)
             THEN [ nodes |-> ns, edges |-> es ]
             ELSE filtered(ns, es, lineage_nodes(es, ns[t].id))

---------------------------------------------------------------------------
(* Bounds and the inputs the model draws from *)

\* events in one call of extract_lineage_graph
MaxEvents == 2

\* dataset references (inputs and outputs together) in one call
MaxRefs == 2

\* nodes and edges of a graph handed to get_lineage_subgraph
MaxGraphNodes == 2

MaxGraphEdges == 2

Schema1 == << [ name |-> <<"i", "d">>, type |-> <<"i", "n", "t">> ] >>

Schema2 == << [ name |-> <<"i", "d">>, type |-> <<"i", "n", "t">> ],
              [ name |-> <<"v">>, type |-> <<"s", "t", "r">> ] >>

\* The beginning of an event: its job and eventTime keys, each present or not.
\* The first two carry the same job name with different details; the third
\* has no key at all.
EventHeads ==
    << [ job |-> [ name |-> <<"a", "/", "b">>, namespace |-> <<"n", "1">> ],
         eventTime |-> <<"t", "1">> ],
       [ job |-> [ name |-> <<"a", "/", "b">> ] ],
       Empty >>

\* Dataset references.  1 and 2, 3 are two (namespace, name) pairs with the same
\* id 'm/mongodb/t'; 4 has the id 'job_a/b' of the job named 'a/b'; 5 has
\* neither namespace nor name.
DatasetRefs ==
    << [ namespace |-> <<"m">>, name |-> <<"m", "o", "n", "g", "o", "d", "b", "/", "t">> ],
       [ namespace |-> <<"m", "/", "m", "o", "n", "g", "o", "d", "b">>, name |-> <<"t">>,
         facets |-> [ schema |-> [ fields |-> Schema1 ],
                      outputStatistics |-> [ rowCount |-> PyInt(100), size |-> PyInt(2048) ] ] ],
       [ namespace |-> <<"m", "/", "m", "o", "n", "g", "o", "d", "b">>, name |-> <<"t">>,
         facets |-> [ schema |-> [ fields |-> Schema2 ],
                      outputStatistics |-> [ rowCount |-> PyInt(200) ] ] ],
       [ namespace |-> <<"j", "o", "b", "_", "a">>, name |-> <<"b">>,
         facets |-> [ schema |-> [ fields |-> Schema1 ],
                      outputStatistics |-> [ size |-> PyInt(7) ] ] ],
       [ facets |-> [ schema |-> [ fields |-> Empty ] ] ] >>

---------------------------------------------------------------------------
(* extract_lineage_graph as a state machine.  The event list is consumed *)
(* as the loops reach it: `events` holds the events begun so far, the   *)
(* last one with the references processed so far.                        *)

\* the event the loop is in
current == events[Len(events)]

RECURSIVE RefCount(_)
\* dataset references in a list of events
RefCount(evs) ==
    IF evs = Empty THEN 0
    ELSE Len(Get(Head(evs), "inputs", Empty)) + Len(Get(Head(evs), "outputs", Empty))
         + RefCount(Tail(evs))

\* events[-1][key].append(ds)
WithRef(evs, key, ds) ==
    [evs EXCEPT ![Len(evs)] = DictSet(@, key, Append(Get(@, key, Empty), ds))]

Init ==
    /\ events = Empty
    /\ nodes = Empty
    /\ edges = Empty
    /\ pc = "events"
    /\ NoSubgraph /\ NoViewer /\ NoClassify /\ NoCalls /\ NoIngest /\ NoMetadata /\ NoPipeline

\* lines 84-94: the loop takes the next event and handles its job
BeginEvent(event) ==
    /\ pc \in {"events", "inputs", "outputs"}
    /\ Len(events) < MaxEvents
    /\ events' = Append(events, event)
    /\ nodes' = add_job(nodes, event)
    /\ pc' = "inputs"
    /\ UNCHANGED <<edges, subgraphVars, session_data, classifyVars, callVars, ingestVars, metadataVars, pipelineVars>>

\* lines 96-114: one turn of the loop over the inputs
ProcessInput(input_ds) ==
    /\ pc = "inputs"
    /\ RefCount(events) < MaxRefs
    /\ events' = WithRef(events, "inputs", input_ds)
    /\ nodes' = add_input(nodes, input_ds)
    /\ edges' = Append(edges, input_edge(current, input_ds))
    /\ UNCHANGED <<pc, subgraphVars, session_data, classifyVars, callVars, ingestVars, metadataVars, pipelineVars>>

\* lines 116-142: one turn of the loop over the outputs (the inputs are exhausted)
ProcessOutput(output_ds) ==
    /\ pc \in {"inputs", "outputs"}
    /\ RefCount(events) < MaxRefs
    /\ events' = WithRef(events, "outputs", output_ds)
    /\ nodes' = add_output(nodes, output_ds)
    /\ edges' = Append(edges, output_edge(current, output_ds))
    /\ pc' = "outputs"
    /\ UNCHANGED <<subgraphVars, session_data, classifyVars, callVars, ingestVars, metadataVars, pipelineVars>>

\* line 144: the events are exhausted
Return ==
    /\ pc \in {"events", "inputs", "outputs"}
    /\ pc' = "returned"
    /\ UNCHANGED <<extractVars, subgraphVars, session_data, classifyVars, callVars, ingestVars, metadataVars, pipelineVars>>

Next ==
    \/ \E h \in DOMAIN EventHeads : BeginEvent(EventHeads[h])
    \/ \E r \in DOMAIN DatasetRefs : ProcessInput(DatasetRefs[r])
    \/ \E r \in DOMAIN DatasetRefs : ProcessOutput(DatasetRefs[r])
    \/ Return

Spec == Init /\ [][Next]_vars

\* the model's own consistency: the accumulator is the fold of what was consumed
StepwiseIsFold ==
    extract_lineage_graph([ events |-> events ]) = [ nodes |-> nodes, edges |-> edges ]

---------------------------------------------------------------------------
(* get_lineage_subgraph on any node mapping, edge list and selector *)

\* the empty str is an id too
GraphIds == << <<"a">>, <<"b">>, Empty >>

\* What get_lineage_subgraph reads of a node, besides its id: dataset nodes with
\* the table names 't', 'All Tables', 'all' and '', and a job node that carries
\* the table name 't'.
NodeKinds ==
    << [ type |-> s_dataset, table_name |-> <<"t">> ],
       [ type |-> s_dataset, table_name |-> s_All_Tables ],
       [ type |-> s_dataset, table_name |-> <<"a", "l", "l">> ],
       [ type |-> s_dataset, table_name |-> Empty ],
       [ type |-> s_job, table_name |-> <<"t">> ] >>

NodeChoiceCount == Len(GraphIds) * Len(NodeKinds)

NodeChoice(c) ==
    DictSet(NodeKinds[((c - 1) % Len(NodeKinds)) + 1], "id",
            GraphIds[((c - 1) \div Len(NodeKinds)) + 1])

\* None, '', 'All Tables', 'all' and 't'
Selectors ==
    << Empty, <<Empty>>, <<s_All_Tables>>, << <<"a", "l", "l">> >>, << <<"t">> >> >>

EdgePairs == { <<GraphIds[i], GraphIds[j]>> : i, j \in DOMAIN GraphIds }

InitRestrict ==
    /\ NoExtract /\ NoViewer /\ NoClassify /\ NoCalls /\ NoIngest /\ NoMetadata /\ NoPipeline
    /\ pc = "graph"
    /\ \E n \in 0..MaxGraphNodes : \E f \in [1..n -> 1..NodeChoiceCount] :
          /\ \A i, j \in 1..n : i # j => NodeChoice(f[i]).id # NodeChoice(f[j]).id
          /\ g_nodes = [i \in 1..n |-> NodeChoice(f[i])]
    /\ \E m \in 0..MaxGraphEdges : g_edges \in [1..m -> EdgePairs]
    /\ selected = Empty
    /\ result = Empty

\* CallSubgraph that filters the mapping and the list it was handed in place
CallSubgraph_in_place(selected_table) ==
    /\ pc = "graph"
    /\ selected' = selected_table
    /\ result' = get_lineage_subgraph(g_nodes, g_edges, selected_table)
    /\ g_nodes' = result'.nodes
    /\ g_edges' = result'.edges
    /\ pc' = "restricted"
    /\ UNCHANGED <<extractVars, session_data, classifyVars, callVars, ingestVars, metadataVars, pipelineVars>>

\* nodes, edges = get_lineage_subgraph(g_nodes, g_edges, selected_table)
CallSubgraph(selected_table) ==
    /\ pc = "graph"
    /\ selected' = selected_table
    /\ result' = get_lineage_subgraph(g_nodes, g_edges, selected_table)
    /\ pc' = "restricted"
    /\ UNCHANGED <<extractVars, g_nodes, g_edges, session_data, classifyVars, callVars, ingestVars, metadataVars, pipelineVars>>

NextRestrict == \E s \in DOMAIN Selectors : CallSubgraph(Selectors[s])

SpecRestrict == InitRestrict /\ [][NextRestrict]_vars

\* both endpoints of every edge handed in are keys of the node mapping, as in
\* the graphs extract_lineage_graph returns (lines 114 and 142 append an edge
\* after both of its nodes are in `nodes`)
EndpointsAreKeys ==
    \A i \in DOMAIN g_edges : g_edges[i][1] \in Keys(g_nodes) /\ g_edges[i][2] \in Keys(g_nodes)

\* get_lineage_subgraph on the graphs whose edges run between their own nodes
InitRestrictClosed == InitRestrict /\ EndpointsAreKeys

SpecRestrictClosed == InitRestrictClosed /\ [][NextRestrict]_vars

---------------------------------------------------------------------------
(* Places in a node mapping *)

Minimum(S) == CHOOSE i \in S : \A j \in S : i <= j

Maximum(S) == CHOOSE i \in S : \A j \in S : j <= i

DatasetNodes(ns) == {i \in DOMAIN ns : ns[i].type = s_dataset}

JobNodes(ns) == {i \in DOMAIN ns : ns[i].type = s_job}

---------------------------------------------------------------------------
(* The viewer: the data setup (lines 33-48) stores what the retrieval      *)
(* helper returned as the 'events' of st.session_state["data"]; line 259   *)
(* hands that dict to extract_lineage_graph, and line 297 hands a graph    *)
(* and the table chosen in the sidebar to get_lineage_subgraph.  A value   *)
(* that is a list or None is <<list>> or <<>> here; a value that is a dict *)
(* or None is the record or Null.                                          *)

\* None (JSON null) in the place of a dict
Null == [ null |-> TRUE ]

IsNone(d) == "null" \in DOMAIN d

\* d.get(k, ...) as if it were d[k]: a missing key raises too
get_raises_as_subscript(d, k) == IsNone(d) \/ k \notin DOMAIN d

\* whether d.get(k, default) raises: AttributeError when d is None, and never
\* for a missing key
get_raises(d, k) == IsNone(d)

\* lines 97-100 (and 117-120): the reads of one dataset reference
input_raises(input_ds) ==
    \/ get_raises(input_ds, "namespace")
    \/ get_raises(Get(input_ds, "facets", Empty), "schema")
    \/ get_raises(Get(Get(input_ds, "facets", Empty), "schema", Empty), "fields")

\* lines 117-138: an output reference also reads output_stats
output_raises(output_ds) ==
    \/ input_raises(output_ds)
    \/ get_raises(output_stats_of(output_ds), "rowCount")

\* lines 85-142: whether the loop body raises for the event
event_raises(event) ==
    \/ get_raises(event, "job")
    \/ get_raises(Get(event, "job", Empty), "name")
    \/ \E i \in DOMAIN Get(event, "inputs", Empty) : input_raises(event.inputs[i])
    \/ \E i \in DOMAIN Get(event, "outputs", Empty) : output_raises(event.outputs[i])

\* loadJSONMongoDB.py lines 120-134: None when the aggregation found no
\* COMPLETE event, the list of events otherwise
retrieved(completed_events) ==
    IF ~Truthy(completed_events) THEN Empty ELSE <<completed_events>>

\* lineage_data.get('events', [])
events_value(data) == Get(data, "events", <<Empty>>)

\* line 259: the call extract_lineage_graph(st.session_state["data"]).  The for
\* statement of line 84 raises TypeError on None; an exception leaves the loop
\* and the call.
call_extract(data) ==
    IF events_value(data) = Empty
    THEN [ raised |-> TRUE ]
    ELSE IF \E i \in DOMAIN events_value(data)[1] : event_raises(events_value(data)[1][i])
    THEN [ raised |-> TRUE ]
    ELSE [ raised |-> FALSE,
           graph |-> extract_lineage_graph([ events |-> events_value(data)[1] ]) ]

\* lines 261-266 and 278-280: the entries of the table selectbox when the
\* source system is left at 'All Systems'
table_options(ns) == {s_All_Tables} \cup {ns[i].table_name : i \in DatasetNodes(ns)}

\* events in the list the viewer loads
MaxViewerEvents == 3

\* Events the viewer may load.  1: one job from a MongoDB collection to the
\* lake.  2, 3, 4: the chain source -> bronze -> silver -> gold, one job each.
\* 5: an event without any key.  6: an event whose job, input and output are
\* empty dicts.  7: the job is null.  8: the output statistics are null.
ViewerEvents ==
    << [ job |-> [ name |-> <<"e", "t", "l", "1">> ],
         inputs |-> << [ namespace |-> <<"m", "o", "n", "g", "o", "d", "b", ":", "/", "/", "x">>,
                         name |-> <<"r", "a", "w", ".", "c", "u", "s", "t", "o", "m", "e", "r", "s">> ] >>,
         outputs |-> << [ namespace |-> <<"s", "3", ":", "/", "/", "l", "a", "k", "e">>,
                          name |-> <<"b", "r", "o", "n", "z", "e", "/", "c", "u", "s", "t", "o", "m", "e", "r", "s">> ] >> ],
       [ job |-> [ name |-> <<"j", "1">> ],
         inputs |-> << [ namespace |-> <<"p", "o", "s", "t", "g", "r", "e", "s", ":", "/", "/", "d", "b">>,
                         name |-> <<"p", "u", "b", "l", "i", "c", ".", "o", "r", "d", "e", "r", "s">> ] >>,
         outputs |-> << [ namespace |-> <<"s", "3", ":", "/", "/", "l", "a", "k", "e">>,
                          name |-> <<"b", "r", "o", "n", "z", "e", "/", "o", "r", "d", "e", "r", "s">> ] >> ],
       [ job |-> [ name |-> <<"j", "2">> ],
         inputs |-> << [ namespace |-> <<"s", "3", ":", "/", "/", "l", "a", "k", "e">>,
                         name |-> <<"b", "r", "o", "n", "z", "e", "/", "o", "r", "d", "e", "r", "s">> ] >>,
         outputs |-> << [ namespace |-> <<"s", "3", ":", "/", "/", "l", "a", "k", "e">>,
                          name |-> <<"s", "i", "l", "v", "e", "r", "/", "o", "r", "d", "e", "r", "s">> ] >> ],
       [ job |-> [ name |-> <<"j", "3">> ],
         inputs |-> << [ namespace |-> <<"s", "3", ":", "/", "/", "l", "a", "k", "e">>,
                         name |-> <<"s", "i", "l", "v", "e", "r", "/", "o", "r", "d", "e", "r", "s">> ] >>,
         outputs |-> << [ namespace |-> <<"s", "3", ":", "/", "/", "l", "a", "k", "e">>,
                          name |-> <<"g", "o", "l", "d", "/", "o", "r", "d", "e", "r", "s">> ] >> ],
       Empty,
       [ job |-> Empty, inputs |-> << Empty >>, outputs |-> << Empty >> ],
       [ job |-> Null ],
       [ job |-> [ name |-> <<"e", "t", "l", "1">> ],
         outputs |-> << [ namespace |-> <<"s", "3", ":", "/", "/", "l", "a", "k", "e">>,
                          name |-> <<"b", "r", "o", "n", "z", "e", "/", "c", "u", "s", "t", "o", "m", "e", "r", "s">>,
                          facets |-> [ outputStatistics |-> Null ] ] >> ] >>

\* st.session_state["data"] after the data setup, for any list of events the
\* aggregation found (none included); or, in a direct call, a dict whose
\* 'events' is the empty list, or one without the key.  The 'description' key,
\* which nothing reads, is left out.
InitViewer ==
    /\ NoExtract /\ NoSubgraph /\ NoClassify /\ NoCalls /\ NoIngest /\ NoMetadata /\ NoPipeline
    /\ pc = "data"
    /\ \/ \E n \in 0..MaxViewerEvents : \E f \in [1..n -> DOMAIN ViewerEvents] :
            session_data = [ events |-> retrieved([i \in 1..n |-> ViewerEvents[f[i]]]) ]
       \/ session_data = [ events |-> <<Empty>> ]
       \/ session_data = Empty

\* line 259: all_nodes, all_edges = extract_lineage_graph(st.session_state["data"]);
\* an exception is caught at line 366 and ends the script
CallExtract ==
    /\ pc = "data"
    /\ IF call_extract(session_data).raised
       THEN pc' = "raised" /\ UNCHANGED <<g_nodes, g_edges>>
       ELSE /\ pc' = "graph"
            /\ g_nodes' = call_extract(session_data).graph.nodes
            /\ g_edges' = call_extract(session_data).graph.edges
    /\ UNCHANGED <<extractVars, selected, result, session_data, classifyVars, callVars, ingestVars, metadataVars, pipelineVars>>

NextViewer ==
    \/ CallExtract
    \/ \E s \in table_options(g_nodes) : CallSubgraph(<<s>>)

SpecViewer == InitViewer /\ [][NextViewer]_vars

---------------------------------------------------------------------------
(* The three classification functions on any dataset name and namespace:   *)
(* lines 105-107 (and 126-128) apply them to ds_name and ds_namespace.     *)

\* pieces a dataset name is made of
MaxNameParts == 2

\* The pieces of a name: the keywords of determine_layer in lower, upper and
\* mixed case, a piece without keyword, and a dot.
NameParts ==
    << <<"B", "r", "o", "n", "z", "e">>, <<"r", "a", "w">>, <<"S", "I", "L", "V", "E", "R">>, <<"c", "l", "e", "a", "n">>, <<"G", "O", "L", "D">>, <<"A", "n", "a", "l", "y", "t", "i", "c", "s">>,
       <<"p", "o", "s", "t", "g", "r", "e", "s">>, <<"S", "q", "l", "S", "e", "r", "v", "e", "r">>, <<"m", "o", "n", "g", "o", "d", "b">>, <<"p", "u", "b", "l", "i", "c", ".">>, <<"d", "b", "o", ".">>, <<".", "c", "s", "v">>,
       <<"x">> >>

\* Namespaces: none, one or two of the keywords of extract_source_system, in
\* either order; 'Postgres' with a capital; 's3://' at the start and further in.
Namespaces ==
    << Empty,
       <<"p", "o", "s", "t", "g", "r", "e", "s", ":", "/", "/", "d", "b">>,
       <<"P", "o", "s", "t", "g", "r", "e", "s", ":", "/", "/", "d", "b">>,
       <<"s", "q", "l", "s", "e", "r", "v", "e", "r", ":", "/", "/", "p", "o", "s", "t", "g", "r", "e", "s">>,
       <<"m", "o", "n", "g", "o", "d", "b", ":", "/", "/", "s", "q", "l", "s", "e", "r", "v", "e", "r">>,
       <<"f", "i", "l", "e", ":", "/", "/", "m", "o", "n", "g", "o", "d", "b">>,
       <<"s", "3", ":", "/", "/", "f", "i", "l", "e", ":", "/", "/", "x">>,
       <<"f", "i", "l", "e", ":", "/", "/", "s", "3", ":", "/", "/", "x">>,
       <<"s", "3", ":", "/", "/", "l", "a", "k", "e">>,
       <<"x">> >>

RECURSIVE Concat(_)
\* ''.join(parts)
Concat(parts) == IF parts = Empty THEN Empty ELSE Head(parts) \o Concat(Tail(parts))

InitClassify ==
    /\ NoExtract /\ NoSubgraph /\ NoViewer /\ NoCalls /\ NoIngest /\ NoMetadata /\ NoPipeline
    /\ pc = "reference"
    /\ \E n \in 0..MaxNameParts : \E f \in [1..n -> DOMAIN NameParts] :
          ds_name = Concat([i \in 1..n |-> NameParts[f[i]]])
    /\ \E k \in DOMAIN Namespaces : ds_namespace = Namespaces[k]
    /\ classified = Empty

\* lines 105-107: the layer, source_system and table_name of a new dataset node
Classify ==
    /\ pc = "reference"
    /\ classified' = [ layer |-> determine_layer(ds_name),
                       source_system |-> extract_source_system(ds_namespace),
                       table_name |-> get_source_table_name(ds_namespace, ds_name) ]
    /\ pc' = "classified"
    /\ UNCHANGED <<extractVars, subgraphVars, session_data, ds_namespace, ds_name,
                   callVars, ingestVars, metadataVars, pipelineVars>>

NextClassify == Classify

SpecClassify == InitClassify /\ [][NextClassify]_vars

---------------------------------------------------------------------------
(* Two calls of extract_lineage_graph from independent call sites, each on *)
(* its own event list, their steps interleaved in any way.  A call binds   *)
(* `nodes` and `edges` to new objects (lines 81-82), works on them one     *)
(* job or dataset reference at a time, and returns them (line 144).        *)

CallSites == {1, 2}

\* events in the list of one of the two calls
MaxCallEvents == 2

\* Events of the two calls: the same job name with different details, and
\* references to one dataset id with different schemas and statistics.
CallEvents ==
    << [ job |-> EventHeads[1].job, eventTime |-> EventHeads[1].eventTime,
         inputs |-> << DatasetRefs[1] >>, outputs |-> << DatasetRefs[2] >> ],
       [ job |-> EventHeads[2].job, outputs |-> << DatasetRefs[3] >> ],
       [ inputs |-> << DatasetRefs[5] >> ] >>

\* the references of one event in processing order: its inputs, then its outputs
EventRefs(event) ==
    [i \in 1..Len(Get(event, "inputs", Empty)) |->
        [ role |-> "input", ds |-> event.inputs[i], event |-> event ]]
    \o
    [i \in 1..Len(Get(event, "outputs", Empty)) |->
        [ role |-> "output", ds |-> event.outputs[i], event |-> event ]]

RECURSIVE CallSteps(_)
\* what a call does between its entry and its return: per event, the job node,
\* then one step per input, then one step per output
CallSteps(evs) ==
    IF evs = Empty THEN Empty
    ELSE << [ role |-> "job", ds |-> Empty, event |-> Head(evs) ] >>
         \o EventRefs(Head(evs)) \o CallSteps(Tail(evs))

\* accumulator_of with one pair of objects for all calls
accumulator_shared(c) == 1

\* lines 81-82: the objects that `nodes` and `edges` of call c are bound to
accumulator_of(c) == c

\* the step call c is about to take
next_step(c) == CallSteps(frames[c].events)[frames[c].at + 1]

\* call c is in its loops, with a step of the given role ahead
at_step(c, role) ==
    /\ frames[c].pc = "loop"
    /\ frames[c].at < Len(CallSteps(frames[c].events))
    /\ next_step(c).role = role

InitCalls ==
    /\ NoExtract /\ NoSubgraph /\ NoViewer /\ NoClassify /\ NoIngest /\ NoMetadata /\ NoPipeline
    /\ pc = "calls"
    /\ \E n1, n2 \in 0..MaxCallEvents :
         \E f1 \in [1..n1 -> DOMAIN CallEvents] : \E f2 \in [1..n2 -> DOMAIN CallEvents] :
            frames = [c \in CallSites |->
                        [ events |-> IF c = 1 THEN [i \in 1..n1 |-> CallEvents[f1[i]]]
                                              ELSE [i \in 1..n2 |-> CallEvents[f2[i]]],
                          at |-> 0, pc |-> "start", returned |-> Empty ]]
    /\ accs = [a \in CallSites |-> [ nodes |-> Empty, edges |-> Empty ]]

\* lines 81-82
BeginCall(c) ==
    /\ frames[c].pc = "start"
    /\ accs' = [accs EXCEPT ![accumulator_of(c)] = [ nodes |-> Empty, edges |-> Empty ]]
    /\ frames' = [frames EXCEPT ![c].pc = "loop"]
    /\ UNCHANGED <<extractVars, pc, subgraphVars, session_data, classifyVars, ingestVars, metadataVars, pipelineVars>>

\* lines 85-94
CallJob(c) ==
    /\ at_step(c, "job")
    /\ accs' = [accs EXCEPT ![accumulator_of(c)].nodes = add_job(@, next_step(c).event)]
    /\ frames' = [frames EXCEPT ![c].at = @ + 1]
    /\ UNCHANGED <<extractVars, pc, subgraphVars, session_data, classifyVars, ingestVars, metadataVars, pipelineVars>>

\* lines 97-114
CallInput(c) ==
    /\ at_step(c, "input")
    /\ accs' = [accs EXCEPT
                  ![accumulator_of(c)].nodes = add_input(@, next_step(c).ds),
                  ![accumulator_of(c)].edges =
                      Append(@, input_edge(next_step(c).event, next_step(c).ds))]
    /\ frames' = [frames EXCEPT ![c].at = @ + 1]
    /\ UNCHANGED <<extractVars, pc, subgraphVars, session_data, classifyVars, ingestVars, metadataVars, pipelineVars>>

\* lines 117-142
CallOutput(c) ==
    /\ at_step(c, "output")
    /\ accs' = [accs EXCEPT
                  ![accumulator_of(c)].nodes = add_output(@, next_step(c).ds),
                  ![accumulator_of(c)].edges =
                      Append(@, output_edge(next_step(c).event, next_step(c).ds))]
    /\ frames' = [frames EXCEPT ![c].at = @ + 1]
    /\ UNCHANGED <<extractVars, pc, subgraphVars, session_data, classifyVars, ingestVars, metadataVars, pipelineVars>>

\* line 144
CallReturn(c) ==
    /\ frames[c].pc = "loop"
    /\ frames[c].at = Len(CallSteps(frames[c].events))
    /\ frames' = [frames EXCEPT ![c].pc = "returned",
                                ![c].returned = accs[accumulator_of(c)]]
    /\ UNCHANGED <<extractVars, pc, subgraphVars, session_data, classifyVars, accs, ingestVars, metadataVars, pipelineVars>>

NextCalls ==
    \E c \in CallSites :
        \/ BeginCall(c)
        \/ CallJob(c)
        \/ CallInput(c)
        \/ CallOutput(c)
        \/ CallReturn(c)

SpecCalls == InitCalls /\ [][NextCalls]_vars

---------------------------------------------------------------------------
(* Batch ingestion (src/loadMongoDBFinal.py): process_ingestion_with_file_move *)
(* lists the JSON files of <base_dir>/TO, hands each to                      *)
(* upload_json_to_mongodb and moves it to <base_dir>/DONE when that returned *)
(* True.  A directory is a function from the names of its files to their     *)
(* lines; a line is "object" (a JSON document), "invalid" (json.loads        *)
(* raises) or "blank".  A document of the collection is the file and the     *)
(* line it came from.                                                        *)

\* calls of process_ingestion_with_file_move, one after the other
MaxRuns == 2

s_json_suffix == <<".", "j", "s", "o", "n">>

\* Files that may lie in TO: two that match *.json and one that does not
FileNames == << <<"a", ".", "j", "s", "o", "n">>, <<"b", ".", "j", "s", "o", "n">>, <<"c", ".", "t", "x", "t">> >>

\* What a file may hold: two documents; a document after an invalid and a blank
\* line; no document at all
FileContents ==
    << << "object", "object" >>,
       << "invalid", "blank", "object" >>,
       << "invalid" >> >>

\* What the environment does to one upload: whether the file can be read, and
\* whether insert_many succeeds ("ok"), raises before any document is written
\* ("error"), or raises after the first of several documents is written ("partial")
UploadEnvs ==
    { [ read_ok |-> r, mongo |-> m ] : r \in BOOLEAN, m \in {"ok", "error", "partial"} }

\* fnmatch(name, "*.json")
matches_json(name) ==
    /\ Len(name) >= Len(s_json_suffix)
    /\ SubSeq(name, Len(name) - Len(s_json_suffix) + 1, Len(name)) = s_json_suffix

\* del d[k]
DictDel(d, k) == [x \in (DOMAIN d) \ {k} |-> d[x]]

\* lines 40-52: the documents parsed from the lines of a file
documents_to_insert(name, lines) ==
    LET idx == SelectSeq([i \in 1..Len(lines) |-> i], LAMBDA i : lines[i] = "object")
    IN  [k \in 1..Len(idx) |-> [ file |-> name, line |-> idx[k] ]]

\* lines 29-89: the value returned, and the documents added to the collection
upload_json_to_mongodb(name, lines, env) ==
    LET docs == documents_to_insert(name, lines)
    IN  IF ~env.read_ok THEN [ success |-> FALSE, inserted |-> Empty ]
        ELSE IF ~Truthy(docs) THEN [ success |-> FALSE, inserted |-> Empty ]
        ELSE IF env.mongo = "ok" THEN [ success |-> TRUE, inserted |-> docs ]
        ELSE IF env.mongo = "partial" /\ Len(docs) > 1
        THEN [ success |-> FALSE, inserted |-> << docs[1] >> ]
        ELSE [ success |-> FALSE, inserted |-> Empty ]

\* the file the loop of line 118 is at
file_path == file_paths[file_idx + 1]

\* the orders in which glob may list the names in S
Listings(S) ==
    { l \in [1..Cardinality(S) -> S] : \A i, j \in DOMAIN l : i # j => l[i] # l[j] }

InitIngest ==
    /\ NoExtract /\ NoSubgraph /\ NoViewer /\ NoClassify /\ NoCalls /\ NoMetadata /\ NoPipeline
    /\ pc = "idle"
    /\ \E present \in SUBSET DOMAIN FileNames :
         \E content \in [present -> DOMAIN FileContents] :
            /\ \A i \in present : ~matches_json(FileNames[i]) => content[i] = 1
            /\ to_dir = [name \in {FileNames[i] : i \in present} |->
                            FileContents[content[CHOOSE i \in present : FileNames[i] = name]]]
    /\ done_dir = Empty
    /\ file_paths = Empty
    /\ file_idx = 0
    /\ success = FALSE
    /\ collection = Empty
    /\ total_files_processed = 0
    /\ total_files_successful = 0
    /\ runs = 0

\* lines 98-116: a call begins; glob lists the JSON files of TO in some order
BeginRun(listing) ==
    /\ pc \in {"idle", "finished"}
    /\ runs < MaxRuns
    /\ runs' = runs + 1
    /\ listing \in Listings({name \in DOMAIN to_dir : matches_json(name)})
    /\ file_paths' = listing
    /\ file_idx' = 0
    /\ total_files_processed' = 0
    /\ total_files_successful' = 0
    /\ pc' = IF ~Truthy(listing) THEN "finished" ELSE "upload"
    /\ UNCHANGED <<extractVars, subgraphVars, session_data, classifyVars, callVars, metadataVars, pipelineVars,
                   to_dir, done_dir, success, collection>>

\* lines 118-123: the loop takes the next file and uploads it
Upload(env) ==
    /\ pc = "upload"
    /\ file_idx < Len(file_paths)
    /\ LET r == upload_json_to_mongodb(file_path, to_dir[file_path], env)
       IN  /\ success' = r.success
           /\ collection' = collection \o r.inserted
    /\ pc' = "move"
    /\ UNCHANGED <<extractVars, subgraphVars, session_data, classifyVars, callVars, metadataVars, pipelineVars,
                   to_dir, done_dir, file_paths, file_idx,
                   total_files_processed, total_files_successful, runs>>

\* MoveOrKeep without the test of `success`
MoveAlways(move_ok) ==
    /\ pc = "move"
    /\ total_files_processed' = total_files_processed + 1
    /\ total_files_successful' = total_files_successful + 1
    /\ IF move_ok
       THEN /\ done_dir' = DictSet(done_dir, file_path, to_dir[file_path])
            /\ to_dir' = DictDel(to_dir, file_path)
       ELSE UNCHANGED <<to_dir, done_dir>>
    /\ file_idx' = file_idx + 1
    /\ pc' = "upload"
    /\ UNCHANGED <<extractVars, subgraphVars, session_data, classifyVars, callVars, metadataVars, pipelineVars,
                   file_paths, success, collection, runs>>

\* lines 125-138: after a successful upload the file is moved to DONE, unless
\* shutil.move raises, which is caught; after a failed one it is left in TO
MoveOrKeep(move_ok) ==
    /\ pc = "move"
    /\ total_files_processed' = total_files_processed + 1
    /\ IF success
       THEN /\ total_files_successful' = total_files_successful + 1
            /\ IF move_ok
               THEN /\ done_dir' = DictSet(done_dir, file_path, to_dir[file_path])
                    /\ to_dir' = DictDel(to_dir, file_path)
               ELSE UNCHANGED <<to_dir, done_dir>>
       ELSE UNCHANGED <<total_files_successful, to_dir, done_dir>>
    /\ file_idx' = file_idx + 1
    /\ pc' = "upload"
    /\ UNCHANGED <<extractVars, subgraphVars, session_data, classifyVars, callVars, metadataVars, pipelineVars,
                   file_paths, success, collection, runs>>

\* lines 140-141: the list is exhausted
FinishRun ==
    /\ pc = "upload"
    /\ file_idx = Len(file_paths)
    /\ pc' = "finished"
    /\ UNCHANGED <<extractVars, subgraphVars, session_data, classifyVars, callVars, ingestVars, metadataVars, pipelineVars>>

NextIngest ==
    \/ \E listing \in Listings({name \in DOMAIN to_dir : matches_json(name)}) :
          BeginRun(listing)
    \/ \E env \in UploadEnvs : Upload(env)
    \/ \E move_ok \in BOOLEAN : MoveOrKeep(move_ok)
    \/ FinishRun

SpecIngest == InitIngest /\ [][NextIngest]_vars

---------------------------------------------------------------------------
(* The retrieval of the latest COMPLETE event of each job                    *)
(* (retrieve_and_print_json_getlatest, the same text in loadMongoDBFinal.py  *)
(* and in loadJSONMongoDB.py), whose result the viewer stores as the event   *)
(* list.  A document carries the _id MongoDB gave it; an eventTime is the    *)
(* rank of its timestamp in the order $sort compares by.  $sort leaves the   *)
(* order of documents with equal keys open, and so does $group the order of  *)
(* its groups, which the last $sort then arranges.                           *)

\* documents in the collection
MaxDocs == 3

EventTypes == <<"COMPLETE", "START", "FAIL">>

JobNames == << <<"a">>, <<"b">> >>

EventTimes == {1, 2}

\* an event as it was inserted
Documents ==
    { [ eventType |-> EventTypes[t], eventTime |-> n, job |-> [ name |-> JobNames[j] ] ] :
        t \in DOMAIN EventTypes, n \in EventTimes, j \in DOMAIN JobNames }

\* {"$match": {"eventType": "COMPLETE"}}
match_stage(docs) == SelectSeq(docs, LAMBDA doc : doc.eventType = "COMPLETE")

\* the arrangements of a list
Arrangements(docs) ==
    { [i \in 1..Len(docs) |-> docs[p[i]]] :
        p \in { q \in [1..Len(docs) -> 1..Len(docs)] :
                  \A i, j \in 1..Len(docs) : i # j => q[i] # q[j] } }

\* $sort with the key order reversed
sort_stage_ascending(docs) ==
    { s \in Arrangements(docs) :
        \A i, j \in 1..Len(s) : i < j => s[i].eventTime <= s[j].eventTime }

\* {"$sort": {"eventTime": -1}} : the lists the stage may produce
sort_stage(docs) ==
    { s \in Arrangements(docs) :
        \A i, j \in 1..Len(s) : i < j => s[i].eventTime >= s[j].eventTime }

\* "_id": "$job.name"
group_key(doc) == doc.job.name

\* {"$group": {"_id": "$job.name", "latestEvent": {"$first": "$$ROOT"}}} and
\* {"$replaceRoot": {"newRoot": "$latestEvent"}} : of each key, the first
\* document in the order the stage receives
group_stage(docs) ==
    LET idx == SelectSeq([i \in 1..Len(docs) |-> i],
                         LAMBDA i : \A j \in 1..(i - 1) : group_key(docs[j]) # group_key(docs[i]))
    IN  [k \in 1..Len(idx) |-> docs[idx[k]]]

\* {"$project": {"_id": 0}}
project_stage(docs) == [i \in 1..Len(docs) |-> DictDel(docs[i], "_id")]

\* list(collection.aggregate(pipeline)) : the lists the pipeline may produce
aggregate(docs) ==
    UNION { sort_stage(project_stage(group_stage(s))) : s \in sort_stage(match_stage(docs)) }

InitRetrieve ==
    /\ NoExtract /\ NoSubgraph /\ NoViewer /\ NoClassify /\ NoCalls /\ NoMetadata /\ NoPipeline
    /\ pc = "collection"
    /\ \E n \in 0..MaxDocs : \E f \in [1..n -> Documents] :
          collection = [i \in 1..n |-> DictSet(f[i], "_id", i)]
    /\ to_dir = Empty
    /\ done_dir = Empty
    /\ file_paths = Empty
    /\ file_idx = 0
    /\ success = FALSE
    /\ total_files_processed = 0
    /\ total_files_successful = 0
    /\ runs = 0

\* app.py lines 42-46: the viewer calls retrieve_and_print_json_getlatest and
\* stores what it returns: the list, None when the list is empty, and None
\* after an exception of the driver, which the function catches
Retrieve(mongo_ok, completed_events) ==
    /\ pc = "collection"
    /\ completed_events \in aggregate(collection)
    /\ session_data' = [ events |-> IF mongo_ok THEN retrieved(completed_events) ELSE Empty ]
    /\ pc' = "data"
    /\ UNCHANGED <<extractVars, subgraphVars, classifyVars, callVars, ingestVars, metadataVars, pipelineVars>>

NextRetrieve ==
    \E mongo_ok \in BOOLEAN : \E completed_events \in aggregate(collection) :
        Retrieve(mongo_ok, completed_events)

SpecRetrieve == InitRetrieve /\ [][NextRetrieve]_vars

---------------------------------------------------------------------------
(* The metadata CSV (src/SQLLite_Ingestion.py): extract_and_compile_metadata *)
(* and extract_and_compile_metadata_simple list the tables of the SQLite     *)
(* files and merge the rows into database_metadata.csv, the value of         *)
(* OUTPUT_CSV_FILE when either function runs (line 271).  A row of the file  *)
(* is text; a row of a DataFrame holds, as object_name, a str or an int.     *)
(* The columns 'owner', a constant, and 'tags', a function of 'schema', are  *)
(* left out.                                                                 *)

\* tables in one SQLite file
MaxTables == 1

\* Names a table may have: a word, a number, a number with a leading zero
TableNames == << <<"t">>, <<"7">>, <<"0", "7">> >>

\* lines 264-268: the tiers of extract_and_compile_metadata_simple
DATABASE_MAP ==
    << [ tier |-> "bronze", db_file |-> "bronze_data.db" ],
       [ tier |-> "silver", db_file |-> "silver_data.db" ] >>

\* lines 155-159: the tiers of extract_and_compile_metadata
db_map ==
    << [ tier |-> "bronze_data", db_file |-> "bronze_data.db" ],
       [ tier |-> "silver", db_file |-> "silver_data.db" ] >>

Digits == <<"0", "1", "2", "3", "4", "5", "6", "7", "8", "9">>

\* whether read_csv takes the text for an integer
IsInteger(s) == s # Empty /\ \A i \in DOMAIN s : \E k \in DOMAIN Digits : Digits[k] = s[i]

RECURSIVE ParseInt(_)
\* int(s) for a text of digits
ParseInt(s) ==
    IF s = Empty THEN 0
    ELSE ParseInt(SubSeq(s, 1, Len(s) - 1)) * 10
            + (CHOOSE k \in DOMAIN Digits : Digits[k] = s[Len(s)]) - 1

RECURSIVE FormatInt(_)
\* str(n) for n >= 0
FormatInt(n) ==
    IF n < 10 THEN << Digits[n + 1] >>
    ELSE FormatInt(n \div 10) \o << Digits[(n % 10) + 1] >>

\* pd.read_csv: a column whose every cell is an integer becomes a column of
\* int, any other column keeps its text.  'schema' and 'certified' never look
\* like numbers.
read_csv(rows) ==
    LET numeric == \A i \in DOMAIN rows : IsInteger(rows[i].object_name)
    IN  [i \in DOMAIN rows |->
            [rows[i] EXCEPT !.object_name = IF numeric THEN PyInt(ParseInt(@)) ELSE PyStr(@)]]

\* df.to_csv(index=False): every cell as str(cell)
to_csv(df) ==
    [i \in DOMAIN df |->
        [df[i] EXCEPT !.object_name = IF "int" \in DOMAIN @ THEN FormatInt(@.int) ELSE @.str]]

\* the columns of subset=['schema', 'object_name']
duplicate_key(row) == << row.schema, row.object_name >>

\* df.drop_duplicates(subset=['schema', 'object_name'], keep='last')
drop_duplicates(df) ==
    LET idx == SelectSeq([i \in DOMAIN df |-> i],
                         LAMBDA i : \A j \in (i + 1)..Len(df) :
                                        duplicate_key(df[j]) # duplicate_key(df[i]))
    IN  [k \in DOMAIN idx |-> df[idx[k]]]

\* lines 164-210 and 292-333: the rows of one tier.  A file that does not
\* exist, or one that sqlite3 cannot read, gives none.
tier_rows(entry, readable, certified) ==
    IF entry.db_file \in DOMAIN databases /\ entry.db_file \in readable
    THEN [i \in DOMAIN databases[entry.db_file] |->
            [ schema |-> entry.tier,
              object_name |-> PyStr(databases[entry.db_file][i]),
              certified |-> certified ]]
    ELSE Empty

\* the rows collected by extract_and_compile_metadata_simple, which certifies
\* every table, or by extract_and_compile_metadata, which certifies the tables
\* the configuration names for the tier: none for the key 'bronze_data', and
\* none for 'silver' in a configuration written by run_part2_create_tables,
\* which has no 'silver_tables'
collected(simple, readable) ==
    IF simple
    THEN tier_rows(DATABASE_MAP[1], readable, "Yes") \o tier_rows(DATABASE_MAP[2], readable, "Yes")
    ELSE tier_rows(db_map[1], readable, "No") \o tier_rows(db_map[2], readable, "No")

\* lines 231-241 and 350-358: read the file, append the new rows, drop the
\* earlier rows of each key
merge(existing, new_output) == drop_duplicates(read_csv(existing) \o new_output)

MetadataPcs == {"metadata", "aborted", "no_records", "fresh", "merged", "write_failed"}

InitMetadata ==
    /\ NoExtract /\ NoSubgraph /\ NoViewer /\ NoClassify /\ NoCalls /\ NoIngest /\ NoPipeline
    /\ pc = "metadata"
    /\ databases = Empty
    /\ csv_file = Empty
    /\ all_metadata = Empty

\* lines 79-109, process_data_load: df.to_sql(table_name, conn, if_exists='replace')
\* creates the file and the table, or drops the table and creates it again
ToSql(db_file, table_name) ==
    /\ pc \in MetadataPcs
    /\ LET tables == SelectSeq(Get(databases, db_file, Empty), LAMBDA t : t # table_name)
       IN  /\ Len(tables) < MaxTables
           /\ databases' = DictSet(databases, db_file, Append(tables, table_name))
    /\ UNCHANGED <<extractVars, pc, subgraphVars, session_data, classifyVars, callVars,
                   ingestVars, pipelineVars, csv_file, all_metadata>>

\* One call of either function.  config_ok: the JSON configuration can be
\* read (the simple function reads none); readable: the SQLite files that can
\* be queried; csv_ok: the existing CSV can be read; write_ok: the CSV can be
\* written.
ExtractMetadata(simple, config_ok, readable, csv_ok, write_ok) ==
    /\ pc \in MetadataPcs
    /\ LET new_output == collected(simple, readable)
           df_combined ==
               IF Truthy(csv_file) /\ csv_ok THEN merge(csv_file[1], new_output) ELSE new_output
       IN  IF ~simple /\ ~config_ok
           THEN pc' = "aborted" /\ UNCHANGED <<csv_file, all_metadata>>
           ELSE IF ~Truthy(new_output)
           THEN pc' = "no_records" /\ all_metadata' = Empty /\ UNCHANGED csv_file
           ELSE /\ all_metadata' = new_output
                /\ IF write_ok
                   THEN /\ csv_file' = << to_csv(df_combined) >>
                        /\ pc' = IF Truthy(csv_file) /\ csv_ok THEN "merged" ELSE "fresh"
                   ELSE pc' = "write_failed" /\ UNCHANGED csv_file
    /\ UNCHANGED <<extractVars, subgraphVars, session_data, classifyVars, callVars,
                   ingestVars, pipelineVars, databases>>

NextMetadata ==
    \/ \E f \in {DATABASE_MAP[i].db_file : i \in DOMAIN DATABASE_MAP} :
          \E n \in DOMAIN TableNames : ToSql(f, TableNames[n])
    \/ \E simple, config_ok, csv_ok, write_ok \in BOOLEAN :
          \E readable \in SUBSET DOMAIN databases :
             ExtractMetadata(simple, config_ok, readable, csv_ok, write_ok)

SpecMetadata == InitMetadata /\ [][NextMetadata]_vars

---------------------------------------------------------------------------
(* The viewer's filter pipeline and rendering (src/app.py lines 214-254 and *)
(* 256-321)                                                                 *)

s_All_Systems == <<"A", "l", "l", " ", "S", "y", "s", "t", "e", "m", "s">>

\* lines 261-270: the entries of the source system selectbox
source_system_options(ns) ==
    {s_All_Systems} \cup {ns[i].source_system : i \in DatasetNodes(ns)}

\* lines 271-280: the entries of the table selectbox for the selected system
filtered_tables(ns, system) ==
    {s_All_Tables} \cup
        IF system # s_All_Systems
        THEN {ns[i].table_name : i \in {j \in DatasetNodes(ns) : ns[j].source_system = system}}
        ELSE {ns[i].table_name : i \in DatasetNodes(ns)}

\* source_filter that keeps every node and every edge
source_filter_keeps_all(ns, es, system) ==
    [ nodes |-> ns, edges |-> es ]

\* lines 291-295: filtered_nodes and filtered_edges
source_filter(ns, es, system) ==
    IF system # s_All_Systems
    THEN LET filtered_nodes ==
                 SelectSeq(ns, LAMBDA n : n.type = s_job \/ n.source_system = system)
         IN  [ nodes |-> filtered_nodes,
               edges |-> SelectSeq(es, LAMBDA e : /\ e[1] \in Keys(filtered_nodes)
                                                  /\ e[2] \in Keys(filtered_nodes)) ]
    ELSE [ nodes |-> ns, edges |-> es ]

\* lines 227-240: the ids handed to net.add_node, in order
added_nodes(ns, show_jobs) ==
    LET kept == SelectSeq(ns, LAMBDA n : ~(n.type = s_job /\ ~show_jobs))
    IN  [i \in DOMAIN kept |-> kept[i].id]

\* lines 242-245: the edges the first loop hands to net.add_edge
direct_edges(es, show_jobs) ==
    SelectSeq(es, LAMBDA e : ~(~show_jobs /\ (\/ Contains(e[1], s_job_prefix)
                                              \/ Contains(e[2], s_job_prefix))))

\* lines 248-252: the edges the nested loops hand to net.add_edge, from the
\* i-th edge of the outer loop on
RECURSIVE bridge_edges(_, _)
bridge_edges(es, i) ==
    IF i > Len(es)
    THEN <<>>
    ELSE LET onward == SelectSeq(es, LAMBDA e : /\ e[1] = es[i][2]
                                                /\ ~Contains(e[2], s_job_prefix))
         IN  (IF Contains(es[i][2], s_job_prefix)
              THEN [k \in DOMAIN onward |-> <<es[i][1], onward[k][2]>>]
              ELSE <<>>) \o bridge_edges(es, i + 1)

\* pyvis Network.add_edge, called at lines 245 and 252: it asserts that both
\* endpoints are nodes of the network ("non existent node"), so the first call
\* with another endpoint raises AssertionError and ends the function
add_edge(node_ids, handed) ==
    LET present == {node_ids[k] : k \in DOMAIN node_ids}
        bad == {i \in DOMAIN handed : handed[i][1] \notin present \/ handed[i][2] \notin present}
    IN  IF bad = {}
        THEN [ raised |-> FALSE, edges |-> handed ]
        ELSE [ raised |-> TRUE, edges |-> SubSeq(handed, 1, Minimum(bad) - 1) ]

\* lines 214-254: the nodes and edges of the network built, and whether an
\* add_edge call raised
create_interactive_graph(ns, es, show_jobs) ==
    LET node_ids == added_nodes(ns, show_jobs)
        handed == direct_edges(es, show_jobs)
                    \o (IF ~show_jobs THEN bridge_edges(es, 1) ELSE <<>>)
    IN  [ show_jobs |-> show_jobs,
          nodes |-> node_ids,
          edges |-> add_edge(node_ids, handed).edges,
          raised |-> add_edge(node_ids, handed).raised ]

\* events in the list the filter pipeline works on
MaxPipelineEvents == 2

\* Events the pipeline may load.  1: from PostgreSQL table 'orders' to the lake
\* table 'orders'.  2: on to a lake dataset named 'All Tables'.  3: a job that
\* writes the dataset 'b' of namespace 'job_a'.  4: the job 'a/b'.  5: a lake
\* dataset named 'job_x' read.  6: from MongoDB 'orders' to PostgreSQL
\* 'customers'.  7: a PostgreSQL dataset 'dbo.', whose table name is empty.
PipelineEvents ==
    << [ job |-> [ name |-> <<"j", "1">> ],
         inputs |-> << [ namespace |-> <<"p", "o", "s", "t", "g", "r", "e", "s", ":", "/", "/", "d", "b">>,
                         name |-> <<"p", "u", "b", "l", "i", "c", ".", "o", "r", "d", "e", "r", "s">> ] >>,
         outputs |-> << [ namespace |-> <<"s", "3", ":", "/", "/", "l", "a", "k", "e">>,
                          name |-> <<"o", "r", "d", "e", "r", "s">> ] >> ],
       [ job |-> [ name |-> <<"j", "2">> ],
         inputs |-> << [ namespace |-> <<"s", "3", ":", "/", "/", "l", "a", "k", "e">>,
                         name |-> <<"o", "r", "d", "e", "r", "s">> ] >>,
         outputs |-> << [ namespace |-> <<"s", "3", ":", "/", "/", "l", "a", "k", "e">>,
                          name |-> <<"A", "l", "l", " ", "T", "a", "b", "l", "e", "s">> ] >> ],
       [ job |-> [ name |-> <<"j", "3">> ],
         outputs |-> << [ namespace |-> <<"j", "o", "b", "_", "a">>,
                          name |-> <<"b">> ] >> ],
       [ job |-> [ name |-> <<"a", "/", "b">> ],
         outputs |-> << [ namespace |-> <<"s", "3", ":", "/", "/", "l", "a", "k", "e">>,
                          name |-> <<"o", "r", "d", "e", "r", "s">> ] >> ],
       [ job |-> [ name |-> <<"j", "2">> ],
         inputs |-> << [ namespace |-> <<"s", "3", ":", "/", "/", "l", "a", "k", "e">>,
                         name |-> <<"j", "o", "b", "_", "x">> ] >>,
         outputs |-> << [ namespace |-> <<"s", "3", ":", "/", "/", "l", "a", "k", "e">>,
                          name |-> <<"o", "r", "d", "e", "r", "s">> ] >> ],
       [ job |-> [ name |-> <<"j", "4">> ],
         inputs |-> << [ namespace |-> <<"m", "o", "n", "g", "o", "d", "b", ":", "/", "/", "m">>,
                         name |-> <<"r", "a", "w", ".", "o", "r", "d", "e", "r", "s">> ] >>,
         outputs |-> << [ namespace |-> <<"p", "o", "s", "t", "g", "r", "e", "s", ":", "/", "/", "d", "b">>,
                          name |-> <<"p", "u", "b", "l", "i", "c", ".", "c", "u", "s", "t", "o", "m", "e", "r", "s">> ] >> ],
       [ job |-> [ name |-> <<"j", "4">> ],
         inputs |-> << [ namespace |-> <<"p", "o", "s", "t", "g", "r", "e", "s", ":", "/", "/", "d", "b">>,
                         name |-> <<"d", "b", "o", ".">> ] >>,
         outputs |-> << [ namespace |-> <<"p", "o", "s", "t", "g", "r", "e", "s", ":", "/", "/", "d", "b">>,
                          name |-> <<"p", "u", "b", "l", "i", "c", ".", "c", "u", "s", "t", "o", "m", "e", "r", "s">> ] >> ] >>

\* st.session_state["data"] for any list of these events
InitPipeline ==
    /\ NoExtract /\ NoSubgraph /\ NoClassify /\ NoCalls /\ NoIngest /\ NoMetadata /\ NoPipeline
    /\ pc = "data"
    /\ \E n \in 0..MaxPipelineEvents : \E f \in [1..n -> DOMAIN PipelineEvents] :
            session_data = [ events |-> <<[i \in 1..n |-> PipelineEvents[f[i]]]>> ]

\* line 259: all_nodes, whatever was selected since
all_nodes == call_extract(session_data).graph.nodes

\* line 270 and lines 291-295: the source system chosen among the entries
\* offered, and the graph kept for it, which line 297 hands to get_lineage_subgraph
SelectSourceSystem(system) ==
    /\ pc = "graph"
    /\ selected_source_system = Empty
    /\ system \in source_system_options(g_nodes)
    /\ selected_source_system' = <<system>>
    /\ g_nodes' = source_filter(g_nodes, g_edges, system).nodes
    /\ g_edges' = source_filter(g_nodes, g_edges, system).edges
    /\ UNCHANGED <<extractVars, pc, selected, result, session_data, classifyVars, callVars,
                   ingestVars, metadataVars, net>>

\* lines 280 and 297: the table chosen among the entries offered for the
\* selected system (computed from all_nodes), then get_lineage_subgraph
SelectTable(selected_table) ==
    /\ selected_source_system # Empty
    /\ selected_table \in filtered_tables(all_nodes, selected_source_system[1])
    /\ CallSubgraph(<<selected_table>>)

\* lines 282 and 318-321: the checkbox, then the warning or the network
Render(show_jobs) ==
    /\ pc = "restricted"
    /\ IF Len(result.nodes) = 0
       THEN pc' = "no_data" /\ UNCHANGED net
       ELSE /\ net' = create_interactive_graph(result.nodes, result.edges, show_jobs)
            /\ pc' = IF net'.raised THEN "render_raised" ELSE "rendered"
    /\ UNCHANGED <<extractVars, subgraphVars, session_data, classifyVars, callVars,
                   ingestVars, metadataVars, selected_source_system>>

NextPipeline ==
    \/ CallExtract
    \/ \E system \in source_system_options(g_nodes) : SelectSourceSystem(system)
    \/ \E t \in filtered_tables(all_nodes, s_All_Systems) : SelectTable(t)
    \/ \E show_jobs \in BOOLEAN : Render(show_jobs)

SpecPipeline == InitPipeline /\ [][NextPipeline]_vars

---------------------------------------------------------------------------
(* What the claims about extract_lineage_graph speak of *)

RECURSIVE AllRefs(_)
\* the references of a list of events in processing order
AllRefs(evs) == IF evs = Empty THEN Empty ELSE EventRefs(Head(evs)) \o AllRefs(Tail(evs))

\* the places in refs of the references that resolve to id
RefsTo(refs, id) == {i \in DOMAIN refs : ds_id_of(refs[i].ds) = id}

\* C1: in every state of the extraction (after each reference, and at the
\* return), both endpoints of every edge are keys of the node mapping.
C1_EdgeEndpointsAreNodes ==
    \A i \in DOMAIN edges : edges[i][1] \in Keys(nodes) /\ edges[i][2] \in Keys(nodes)

\* C1 witness: a returned graph with an input edge and an output edge
C1_Witness ==
    /\ pc = "returned"
    /\ Len(edges) = 2
    /\ Len(nodes) = 3
    /\ edges[1][2] = edges[2][1]

\* a step that processed one dataset reference
RefStep == Len(events') = Len(events) /\ events' # events

\* C3: when a reference resolves to an existing dataset node, an empty incoming
\* schema leaves a non-empty stored schema as it is, and a non-empty incoming
\* schema replaces an empty stored one.
C3_SchemaMergeRule ==
    [][ RefStep =>
          LET ds == AllRefs(events')[Len(AllRefs(events'))].ds
              id == ds_id_of(ds)
          IN  (HasKey(nodes, id) /\ NodeOf(nodes, id).type = s_dataset) =>
                LET old == NodeOf(nodes, id).schema_fields
                    new == NodeOf(nodes', id).schema_fields
                    incoming == schema_fields_of(ds)
                IN  /\ (incoming = Empty /\ old # Empty) => new = old
                    /\ (incoming # Empty /\ old = Empty) => new = incoming
      ]_vars

\* C3 witness: a dataset first seen as an input without schema, then seen as an
\* output with a schema, has that schema
C3_Witness ==
    /\ Len(AllRefs(events)) = 2
    /\ AllRefs(events)[1].role = "input"
    /\ AllRefs(events)[2].role = "output"
    /\ ds_id_of(AllRefs(events)[1].ds) = ds_id_of(AllRefs(events)[2].ds)
    /\ schema_fields_of(AllRefs(events)[1].ds) = Empty
    /\ schema_fields_of(AllRefs(events)[2].ds) = Schema1
    /\ NodeOf(nodes, ds_id_of(AllRefs(events)[1].ds)).type = s_dataset
    /\ NodeOf(nodes, ds_id_of(AllRefs(events)[1].ds)).schema_fields = Schema1

\* the statistic `key` ('rowCount' or 'size') that the claim C4 expects for id:
\* that of the last output reference to id that supplies one, else 'N/A'
LastSupplied(refs, id, key) ==
    LET idx == {i \in RefsTo(refs, id) :
                    refs[i].role = "output" /\ key \in DOMAIN output_stats_of(refs[i].ds)}
    IN  IF idx = {} THEN PyStr(s_NA) ELSE output_stats_of(refs[Maximum(idx)].ds)[key]

\* C4: each dataset node's row_count, and independently its size, is the value
\* supplied by the last output reference to its id that supplies one, and 'N/A'
\* when none does (so an output without statistics keeps the stored value, and
\* inputs never change either).
C4_StatsAreLastSupplied ==
    LET refs == AllRefs(events)
    IN  \A i \in DatasetNodes(nodes) :
            /\ nodes[i].details.row_count = LastSupplied(refs, nodes[i].id, "rowCount")
            /\ nodes[i].details.size = LastSupplied(refs, nodes[i].id, "size")

\* C4 witness: a dataset written with rowCount 100, then written again by a
\* reference without statistics, still has row_count 100
C4_Witness ==
    /\ pc = "returned"
    /\ Len(AllRefs(events)) = 2
    /\ \A k \in 1..2 : AllRefs(events)[k].role = "output"
    /\ ds_id_of(AllRefs(events)[1].ds) = ds_id_of(AllRefs(events)[2].ds)
    /\ Get(output_stats_of(AllRefs(events)[1].ds), "rowCount", Empty) = PyInt(100)
    /\ output_stats_of(AllRefs(events)[2].ds) = Empty
    /\ NodeOf(nodes, ds_id_of(AllRefs(events)[1].ds)).details.row_count = PyInt(100)

\* C5: extraction of the event list followed by itself gives the same node
\* mapping (keys, order, contents) and the edge list concatenated with itself.
C5_TwiceDuplicatesOnlyEdges ==
    pc = "returned" =>
        LET twice == extract_lineage_graph([ events |-> events \o events ])
        IN  /\ twice.nodes = nodes
            /\ twice.edges = edges \o edges

\* C5 witness: a returned graph of two events whose references merged into a node
C5_Witness ==
    /\ pc = "returned"
    /\ Len(events) = 2
    /\ Len(edges) = 2
    /\ Len(nodes) = 2

RECURSIVE ExpectedEdges(_)
\* the edges the claim C6 expects: per event, (datasetId, jobId) for each input
\* in order, then (jobId, datasetId) for each output in order
ExpectedEdges(evs) ==
    IF evs = Empty THEN Empty
    ELSE LET ev == Head(evs)
             ins == Get(ev, "inputs", Empty)
             outs == Get(ev, "outputs", Empty)
         IN  [i \in 1..Len(ins) |-> <<ds_id_of(ins[i]), job_id_of(ev)>>]
             \o [i \in 1..Len(outs) |-> <<job_id_of(ev), ds_id_of(outs[i])>>]
             \o ExpectedEdges(Tail(evs))

\* C6: the edge list has exactly one entry per reference, in processing order,
\* input edges (datasetId, jobId) before output edges (jobId, datasetId) within
\* each event; nothing is deduplicated.
C6_OneEdgePerReference == edges = ExpectedEdges(events)

\* C6 witness: the same input observed by two events with the same job yields
\* the same edge twice
C6_Witness ==
    /\ pc = "returned"
    /\ Len(events) = 2
    /\ Len(edges) = 2
    /\ edges[1] = edges[2]
    /\ AllRefs(events)[1].role = "input"

\* C7: a dataset node's layer, source_system, table_name and label are those
\* computed from the first reference, in processing order, that resolved to its
\* id; holding in every state, no later reference changes them.
C7_ClassificationFrozen ==
    LET refs == AllRefs(events)
    IN  \A i \in DatasetNodes(nodes) :
            LET to == RefsTo(refs, nodes[i].id)
            IN  /\ to # {}
                /\ LET first == refs[Minimum(to)].ds
                   IN  /\ nodes[i].layer = determine_layer(ds_name_of(first))
                       /\ nodes[i].source_system
                            = extract_source_system(ds_namespace_of(first))
                       /\ nodes[i].table_name
                            = get_source_table_name(ds_namespace_of(first), ds_name_of(first))
                       /\ nodes[i].label = ds_name_of(first)

\* C7 witness: two references with different (namespace, name) pairs and the
\* same id, whose classifications differ; the node has the first one's
C7_Witness ==
    /\ Len(AllRefs(events)) = 2
    /\ LET a == AllRefs(events)[1].ds
           b == AllRefs(events)[2].ds
       IN  /\ ds_id_of(a) = ds_id_of(b)
           /\ ds_name_of(a) # ds_name_of(b)
           /\ determine_layer(ds_name_of(a)) # determine_layer(ds_name_of(b))
           /\ extract_source_system(ds_namespace_of(a))
                # extract_source_system(ds_namespace_of(b))
           /\ NodeOf(nodes, ds_id_of(a)).layer = determine_layer(ds_name_of(a))
           /\ NodeOf(nodes, ds_id_of(a)).type = s_dataset

\* C8 as claimed: every job node is, in every field, the node made from the
\* first event that has its job id; no later event or reference changes it.
C8_JobNodeFirstSeen ==
    \A i \in JobNodes(nodes) :
        LET evs == {k \in DOMAIN events : job_id_of(events[k]) = nodes[i].id}
        IN  evs # {} /\ nodes[i] = job_node(events[Minimum(evs)])

---------------------------------------------------------------------------
(* What the claims about get_lineage_subgraph speak of *)

\* there is a directed path of one edge or more from a to b
PathExists(es, a, b) ==
    LET V == graph_nodes(es)
        E == {es[i] : i \in DOMAIN es}
    IN  \E k \in 2..(Cardinality(V) + 1) : \E p \in [1..k -> V] :
            /\ p[1] = a
            /\ p[k] = b
            /\ \A i \in 1..(k - 1) : <<p[i], p[i + 1]>> \in E

\* S = {target} plus the nodes with a path to target plus those reachable from it
LineageSet(es, target) ==
    {target} \cup {n \in graph_nodes(es) : PathExists(es, n, target)}
             \cup {n \in graph_nodes(es) : PathExists(es, target, n)}

\* the graph restricted to the node ids in S
Restricted(ns, es, S) ==
    [ nodes |-> SelectSeq(ns, LAMBDA n : n.id \in S),
      edges |-> SelectSeq(es, LAMBDA e : e[1] \in S /\ e[2] \in S) ]

\* the argument graph, as it was handed in
Unfiltered == [ nodes |-> g_nodes, edges |-> g_edges ]

\* the places of the dataset nodes whose table_name is s
DatasetMatches(ns, s) == {i \in DOMAIN ns : ns[i].type = s_dataset /\ ns[i].table_name = s}

\* the id of the first dataset node whose table_name is s
FirstMatchId(ns, s) == ns[Minimum(DatasetMatches(ns, s))].id

\* C2 as claimed: for every selector that matches a dataset node, the result is
\* the graph restricted to S.
C2_Original ==
    (pc = "restricted" /\ selected # Empty /\ DatasetMatches(g_nodes, selected[1]) # {}) =>
        result = Restricted(g_nodes, g_edges,
                            LineageSet(g_edges, FirstMatchId(g_nodes, selected[1])))

\* C2 amended: for every selector other than '' and 'All Tables' that matches a
\* dataset node, the first of which has a non-empty id, the result is the graph
\* restricted to S = {target} + ancestors + descendants; S = {target} when the
\* target is in no edge.
C2_SubgraphIsLineage ==
    (/\ pc = "restricted"
     /\ selected # Empty
     /\ selected[1] # Empty
     /\ selected[1] # s_All_Tables
     /\ DatasetMatches(g_nodes, selected[1]) # {}
     /\ FirstMatchId(g_nodes, selected[1]) # Empty) =>
        result = Restricted(g_nodes, g_edges,
                            LineageSet(g_edges, FirstMatchId(g_nodes, selected[1])))

\* C2 witness: the target lies on a cycle, and a node outside its lineage is dropped
C2_Witness ==
    /\ pc = "restricted"
    /\ selected = << <<"t">> >>
    /\ DatasetMatches(g_nodes, <<"t">>) # {}
    /\ FirstMatchId(g_nodes, <<"t">>) = <<"a">>
    /\ PathExists(g_edges, <<"a">>, <<"a">>)
    /\ Len(g_edges) = 2
    /\ g_edges[1] # g_edges[2]
    /\ Len(g_nodes) = 2
    /\ KeyList(result.nodes) = << <<"a">> >>
    /\ result.edges = g_edges

\* C9 as claimed: the selectors None, '' and 'all' return the input unchanged.
C9_Original ==
    (pc = "restricted" /\ selected \in {Empty, <<Empty>>, << <<"a", "l", "l">> >>}) =>
        result = Unfiltered

\* C9 amended: the selectors None, '' and 'All Tables' return the input
\* unchanged: same nodes in the same order, same edge list.
C9_NoSelectionIsIdentity ==
    (pc = "restricted" /\ selected \in {Empty, <<Empty>>, <<s_All_Tables>>}) =>
        result = Unfiltered

\* C9 witness: 'All Tables' is the table name of a dataset node whose lineage is
\* not the whole graph, and the whole graph is returned all the same
C9_Witness ==
    /\ pc = "restricted"
    /\ selected = <<s_All_Tables>>
    /\ DatasetMatches(g_nodes, s_All_Tables) # {}
    /\ FirstMatchId(g_nodes, s_All_Tables) # Empty
    /\ Restricted(g_nodes, g_edges,
                  LineageSet(g_edges, FirstMatchId(g_nodes, s_All_Tables))) # Unfiltered
    /\ result = Unfiltered

\* C10: a non-empty selector that is the table_name of no dataset node returns
\* the input unfiltered; a job node that carries the name is no match.
C10_NoMatchReturnsInput ==
    (/\ pc = "restricted"
     /\ selected # Empty
     /\ selected[1] # Empty
     /\ DatasetMatches(g_nodes, selected[1]) = {}) =>
        result = Unfiltered

\* C10 witness: only a job node carries the selected table name 't'; restricting
\* to that node's lineage would drop the other node
C10_Witness ==
    /\ pc = "restricted"
    /\ selected = << <<"t">> >>
    /\ DatasetMatches(g_nodes, <<"t">>) = {}
    /\ Len(g_nodes) = 2
    /\ g_nodes[1].type = s_job
    /\ g_nodes[1].table_name = <<"t">>
    /\ g_nodes[1].id # Empty
    /\ g_nodes[2].type = s_dataset
    /\ Restricted(g_nodes, g_edges, LineageSet(g_edges, g_nodes[1].id)) # Unfiltered
    /\ Len(g_edges) > 0
    /\ result = Unfiltered

\* C11: a call of get_lineage_subgraph, whatever the selector, leaves the node
\* mapping and the edge list it was handed as they were: same keys in the same
\* order, same node contents, same edge sequence.
C11_InputsNotMutated ==
    [][ (pc = "graph" /\ pc' = "restricted") =>
            (g_nodes' = g_nodes /\ g_edges' = g_edges) ]_vars

\* C11 witness: a call that returned fewer nodes and fewer edges than it was
\* handed, the arguments still holding all of them
C11_Witness ==
    /\ pc = "restricted"
    /\ Len(g_nodes) = 2
    /\ Len(g_edges) = 2
    /\ Len(result.nodes) = 1
    /\ Len(result.edges) = 1

---------------------------------------------------------------------------
(* What the claims about the viewer's calls speak of *)

\* the event list of st.session_state["data"], when it is a list
LoadedEvents == events_value(session_data)[1]

\* the call of extract_lineage_graph is over, with a list of events as input
ExtractedFromList == pc # "data" /\ events_value(session_data) # Empty

\* a dict of the reference is None rather than missing
RefHasNone(d) ==
    \/ IsNone(d)
    \/ IsNone(Get(d, "facets", Empty))
    \/ IsNone(Get(Get(d, "facets", Empty), "schema", Empty))
    \/ IsNone(Get(Get(d, "facets", Empty), "outputStatistics", Empty))

\* a dict of the event is None rather than missing
EventHasNone(event) ==
    \/ IsNone(event)
    \/ IsNone(Get(event, "job", Empty))
    \/ \E i \in DOMAIN Get(event, "inputs", Empty) : RefHasNone(event.inputs[i])
    \/ \E i \in DOMAIN Get(event, "outputs", Empty) : RefHasNone(event.outputs[i])

\* the value of key k in d, and the placeholder when d has no key k
OrPlaceholder(d, k, placeholder) == IF k \in DOMAIN d THEN d[k] ELSE placeholder

\* the id the job of the event is expected under
PlaceholderJobId(event) ==
    s_job_prefix \o OrPlaceholder(OrPlaceholder(event, "job", Empty), "name", s_Unknown_Job)

\* the id the dataset reference is expected under
PlaceholderDatasetId(d) ==
    OrPlaceholder(d, "namespace", Empty) \o s_slash \o OrPlaceholder(d, "name", Empty)

C13_EmptyYieldsEmptyGraph ==
    (/\ pc # "data"
     /\ \/ "events" \notin DOMAIN session_data
        \/ events_value(session_data) = <<Empty>>
        \/ events_value(session_data) = Empty) =>
        /\ pc # "raised"
        /\ g_nodes = Empty
        /\ g_edges = Empty

\* C17: for the single event with job 'etl1', input ('mongodb://x',
\* 'raw.customers') and output ('s3://lake', 'bronze/customers'), the call returns
\* exactly the nodes job_etl1, mongodb://x/raw.customers and
\* s3://lake/bronze/customers and exactly the edges (input, job) and (job,
\* output); the input has source system MongoDB and layer bronze, the output
\* has layer bronze.
C17_SingleEventGraph ==
    (pc # "data" /\ events_value(session_data) = << <<ViewerEvents[1]>> >>) =>
        LET job_id == <<"j", "o", "b", "_", "e", "t", "l", "1">>
            in_id == <<"m", "o", "n", "g", "o", "d", "b", ":", "/", "/", "x", "/", "r", "a", "w", ".", "c", "u", "s", "t", "o", "m", "e", "r", "s">>
            out_id == <<"s", "3", ":", "/", "/", "l", "a", "k", "e", "/", "b", "r", "o", "n", "z", "e", "/", "c", "u", "s", "t", "o", "m", "e", "r", "s">>
        IN  /\ pc # "raised"
            /\ Keys(g_nodes) = {job_id, in_id, out_id}
            /\ Len(g_nodes) = 3
            /\ g_edges = << <<in_id, job_id>>, <<job_id, out_id>> >>
            /\ NodeOf(g_nodes, in_id).source_system = s_MongoDB
            /\ NodeOf(g_nodes, in_id).layer = s_bronze
            /\ NodeOf(g_nodes, out_id).layer = s_bronze

\* C17 witness: the graph of that event, with the job as its first node
C17_Witness ==
    /\ pc = "graph"
    /\ events_value(session_data) = << <<ViewerEvents[1]>> >>
    /\ Len(g_nodes) = 3
    /\ g_nodes[1].type = s_job
    /\ g_nodes[2].table_name = <<"c", "u", "s", "t", "o", "m", "e", "r", "s">>

\* the three events of the chain source -> bronze -> silver -> gold, in any order
IsChain(evs) ==
    /\ Len(evs) = 3
    /\ \A c \in 2..4 : \E k \in 1..3 : evs[k] = ViewerEvents[c]

\* the table name of the silver dataset of the chain
SilverTable == <<"s", "i", "l", "v", "e", "r", "/", "o", "r", "d", "e", "r", "s">>

\* C18: for the graph extracted from the chain source -> bronze -> silver ->
\* gold (3 jobs, 4 datasets with pairwise distinct table names),
\* get_lineage_subgraph on the table name of the silver dataset returns all 4
\* dataset nodes, the 3 job nodes and every edge.
C18_ChainKeepsEverything ==
    (/\ pc = "restricted"
     /\ events_value(session_data) # Empty
     /\ IsChain(LoadedEvents)
     /\ selected = <<SilverTable>>) =>
        /\ result.nodes = g_nodes
        /\ result.edges = g_edges
        /\ Cardinality(DatasetNodes(result.nodes)) = 4
        /\ Cardinality(JobNodes(result.nodes)) = 3
        /\ Len(result.edges) = 6

\* C18 witness: the chain loaded in the order gold, silver, bronze, restricted on
\* the silver table, whose node is then the third of the mapping
C18_Witness ==
    /\ pc = "restricted"
    /\ events_value(session_data)
         = << <<ViewerEvents[4], ViewerEvents[3], ViewerEvents[2]>> >>
    /\ selected = <<SilverTable>>
    /\ g_nodes[2].table_name = SilverTable
    /\ Len(result.nodes) = 7
    /\ \A i, j \in DatasetNodes(g_nodes) : i # j => g_nodes[i].table_name # g_nodes[j].table_name

---------------------------------------------------------------------------
(* What the claims about the classification functions speak of *)

\* c is the lower-case letter k or its upper-case form
SameLetter(c, k) ==
    c = k \/ \E n \in 1..26 : UpperLetters[n] = c /\ LowerLetters[n] = k

\* the lower-case keyword kw occurs in s, in any mix of cases
OccursAnyCase(s, kw) ==
    \E i \in 1..Len(s) :
        /\ i + Len(kw) - 1 <= Len(s)
        /\ \A j \in 1..Len(kw) : SameLetter(s[i + j - 1], kw[j])

\* sub occurs in s, letter for letter
Occurs(s, sub) ==
    \E i \in 1..Len(s) : i + Len(sub) - 1 <= Len(s) /\ SubSeq(s, i, i + Len(sub) - 1) = sub

\* C14: the layer is decided by the name alone, keywords matched in any case,
\* the first of these winning: 'bronze' or 'raw' gives bronze; else 'silver' or
\* 'clean' gives silver; else 'gold' or 'analytics' gives gold; else 'postgres',
\* 'sqlserver', 'mongodb', 'public.', 'dbo.' or '.csv' gives source; else unknown.
C14_LayerFirstMatch ==
    pc = "classified" =>
        classified.layer =
            IF OccursAnyCase(ds_name, <<"b", "r", "o", "n", "z", "e">>) \/ OccursAnyCase(ds_name, <<"r", "a", "w">>)
            THEN <<"b", "r", "o", "n", "z", "e">>
            ELSE IF OccursAnyCase(ds_name, <<"s", "i", "l", "v", "e", "r">>) \/ OccursAnyCase(ds_name, <<"c", "l", "e", "a", "n">>)
            THEN <<"s", "i", "l", "v", "e", "r">>
            ELSE IF OccursAnyCase(ds_name, <<"g", "o", "l", "d">>) \/ OccursAnyCase(ds_name, <<"a", "n", "a", "l", "y", "t", "i", "c", "s">>)
            THEN <<"g", "o", "l", "d">>
            ELSE IF \/ OccursAnyCase(ds_name, <<"p", "o", "s", "t", "g", "r", "e", "s">>)
                    \/ OccursAnyCase(ds_name, <<"s", "q", "l", "s", "e", "r", "v", "e", "r">>)
                    \/ OccursAnyCase(ds_name, <<"m", "o", "n", "g", "o", "d", "b">>)
                    \/ OccursAnyCase(ds_name, <<"p", "u", "b", "l", "i", "c", ".">>)
                    \/ OccursAnyCase(ds_name, <<"d", "b", "o", ".">>)
                    \/ OccursAnyCase(ds_name, <<".", "c", "s", "v">>)
            THEN <<"s", "o", "u", "r", "c", "e">>
            ELSE <<"u", "n", "k", "n", "o", "w", "n">>

\* C14 witness: 'GOLDraw' has a gold keyword in upper case before a bronze
\* keyword, and is bronze
C14_Witness ==
    /\ pc = "classified"
    /\ ds_name = <<"G", "O", "L", "D", "r", "a", "w">>
    /\ classified.layer = <<"b", "r", "o", "n", "z", "e">>

\* C15: the source system is decided by the namespace alone, letter for letter,
\* the first of these winning: 'postgres' gives PostgreSQL; 'sqlserver' SQL
\* Server; 'mongodb' MongoDB; 'file://' CSV Files; 's3://' Data Lake; else Unknown.
C15_SourceSystemFirstMatch ==
    pc = "classified" =>
        classified.source_system =
            IF Occurs(ds_namespace, <<"p", "o", "s", "t", "g", "r", "e", "s">>) THEN <<"P", "o", "s", "t", "g", "r", "e", "S", "Q", "L">>
            ELSE IF Occurs(ds_namespace, <<"s", "q", "l", "s", "e", "r", "v", "e", "r">>) THEN <<"S", "Q", "L", " ", "S", "e", "r", "v", "e", "r">>
            ELSE IF Occurs(ds_namespace, <<"m", "o", "n", "g", "o", "d", "b">>) THEN <<"M", "o", "n", "g", "o", "D", "B">>
            ELSE IF Occurs(ds_namespace, <<"f", "i", "l", "e", ":", "/", "/">>) THEN <<"C", "S", "V", " ", "F", "i", "l", "e", "s">>
            ELSE IF Occurs(ds_namespace, <<"s", "3", ":", "/", "/">>) THEN <<"D", "a", "t", "a", " ", "L", "a", "k", "e">>
            ELSE <<"U", "n", "k", "n", "o", "w", "n">>

\* C15 witness: 'sqlserver://postgres' has 'sqlserver' before 'postgres', and is
\* PostgreSQL
C15_Witness ==
    /\ pc = "classified"
    /\ ds_namespace = <<"s", "q", "l", "s", "e", "r", "v", "e", "r", ":", "/", "/", "p", "o", "s", "t", "g", "r", "e", "s">>
    /\ classified.source_system = <<"P", "o", "s", "t", "g", "r", "e", "S", "Q", "L">>

\* C16: the table name is the name when the namespace starts with 's3://';
\* otherwise what follows the last '.' of the name when it has one; otherwise
\* the name.
C16_TableNameRule ==
    pc = "classified" =>
        LET t == classified.table_name
            n == Len(ds_name) - Len(t)
        IN  IF Len(ds_namespace) >= 5 /\ SubSeq(ds_namespace, 1, 5) = <<"s", "3", ":", "/", "/">>
            THEN t = ds_name
            ELSE IF \E i \in 1..Len(ds_name) : ds_name[i] = "."
            THEN /\ n >= 1
                 /\ ds_name[n] = "."
                 /\ \A i \in 1..Len(t) : t[i] = ds_name[n + i] /\ t[i] # "."
            ELSE t = ds_name

\* C16 witness: with a namespace that has 's3://' but not at its start, the
\* name 'dbo..csv' with two dots gives 'csv'
C16_Witness ==
    /\ pc = "classified"
    /\ ds_namespace = <<"f", "i", "l", "e", ":", "/", "/", "s", "3", ":", "/", "/", "x">>
    /\ ds_name = <<"d", "b", "o", ".", ".", "c", "s", "v">>
    /\ classified.table_name = <<"c", "s", "v">>

---------------------------------------------------------------------------
(* What the claim about repeated and concurrent calls speaks of *)

\* C19: in every interleaving of two calls, each on its own event list, a call
\* returns the graph that the call alone returns for its list; two calls on
\* equal lists return equal graphs.
C19_CallsAreIndependent ==
    /\ \A c \in CallSites :
          frames[c].pc = "returned" =>
              frames[c].returned = extract_lineage_graph([ events |-> frames[c].events ])
    /\ \A c, d \in CallSites :
          (/\ frames[c].pc = "returned"
           /\ frames[d].pc = "returned"
           /\ frames[c].events = frames[d].events) =>
              frames[c].returned = frames[d].returned

\* C19 witness: call 2 is between two steps of its loops when call 1 returns;
\* their lists refer to one dataset id with different schemas, and the
\* accumulators differ
C19_Witness ==
    /\ frames[1].pc = "returned"
    /\ frames[2].pc = "loop"
    /\ frames[2].at = 1
    /\ frames[1].events = << CallEvents[1] >>
    /\ frames[2].events = << CallEvents[2] >>
    /\ Len(frames[1].returned.nodes) = 2
    /\ accs[2].edges = Empty
    /\ accs[1] # accs[2]

---------------------------------------------------------------------------
(* What the claim about the batch ingestion speaks of *)

\* the step is the upload of the current file
IsUpload == pc = "upload" /\ pc' = "move"

\* the step is what follows the upload of the current file
IsMoveOrKeep == pc = "move" /\ pc' = "upload"

\* C20: a file enters DONE only in the step after the upload of that very file
\* returned True, with the lines it had in TO; upload returns True only when
\* the file has a valid JSON line and its documents were inserted; after a failed
\* upload the file stays in TO with TO and DONE unchanged; and in either case
\* the loop goes on to the next entry of the list, so that a run that ends has
\* taken every file glob listed.
C20_MovedOnlyAfterSuccess ==
    [][ /\ \A name \in DOMAIN done_dir' :
              name \notin DOMAIN done_dir =>
                  /\ IsMoveOrKeep
                  /\ success
                  /\ name = file_path
                  /\ done_dir'[name] = to_dir[name]
                  /\ name \notin DOMAIN to_dir'
        /\ (IsUpload /\ success') =>
              /\ \E i \in DOMAIN to_dir[file_path] : to_dir[file_path][i] = "object"
              /\ Len(collection') > Len(collection)
              /\ \A k \in (Len(collection) + 1)..Len(collection') :
                    collection'[k].file = file_path
        /\ (IsMoveOrKeep /\ ~success) =>
              /\ to_dir' = to_dir
              /\ done_dir' = done_dir
              /\ file_path \in DOMAIN to_dir'
        /\ IsMoveOrKeep =>
              /\ file_idx' = file_idx + 1
              /\ total_files_processed' = total_files_processed + 1
        /\ (pc = "upload" /\ pc' = "finished") =>
              total_files_processed = Len(file_paths)
      ]_vars

\* C20 witness: a run that ended with a.json, which has no valid line, still in
\* TO and b.json, taken after it, in DONE
C20_Witness ==
    /\ pc = "finished"
    /\ runs = 1
    /\ file_paths = << <<"a", ".", "j", "s", "o", "n">>, <<"b", ".", "j", "s", "o", "n">> >>
    /\ total_files_processed = 2
    /\ total_files_successful = 1
    /\ <<"a", ".", "j", "s", "o", "n">> \in DOMAIN to_dir
    /\ to_dir[<<"a", ".", "j", "s", "o", "n">>] = << "invalid" >>
    /\ DOMAIN done_dir = { <<"b", ".", "j", "s", "o", "n">> }
    /\ Len(collection) = 2

---------------------------------------------------------------------------
(* What the claim about the retrieval speaks of *)

\* the COMPLETE documents of the collection with the job name j
CompleteOf(j) ==
    { i \in DOMAIN collection :
        collection[i].eventType = "COMPLETE" /\ collection[i].job.name = j }

\* the list the call returned
Returned == session_data.events[1]

\* C21: when retrieve_and_print_json_getlatest returns a list, it holds, for
\* every job name with a COMPLETE event in the collection, exactly one event,
\* whose eventTime is the greatest of the COMPLETE events of that name; every
\* event of the list is a COMPLETE event of the collection.
C21_LatestCompletePerJob ==
    (pc = "data" /\ session_data.events # Empty) =>
        /\ \A j \in { collection[i].job.name : i \in DOMAIN collection } :
              CompleteOf(j) # {} =>
                 /\ Cardinality({ k \in DOMAIN Returned : Returned[k].job.name = j }) = 1
                 /\ \A k \in DOMAIN Returned :
                       Returned[k].job.name = j =>
                          Returned[k].eventTime =
                             Maximum({ collection[i].eventTime : i \in CompleteOf(j) })
        /\ \A k \in DOMAIN Returned :
              /\ Returned[k].eventType = "COMPLETE"
              /\ \E i \in DOMAIN collection : Returned[k] = DictDel(collection[i], "_id")

\* a list was returned from a collection that holds, for one job name, an
\* earlier and a later COMPLETE event and an event of another type later still
C21_Witness ==
    /\ pc = "data"
    /\ session_data.events # Empty
    /\ \E a, b, c \in DOMAIN collection :
          /\ collection[a].job.name = collection[b].job.name
          /\ collection[a].job.name = collection[c].job.name
          /\ collection[a].eventType = "COMPLETE"
          /\ collection[b].eventType = "COMPLETE"
          /\ collection[c].eventType # "COMPLETE"
          /\ a < b
          /\ collection[a].eventTime > collection[b].eventTime
          /\ collection[c].eventTime >= collection[a].eventTime

---------------------------------------------------------------------------
(* What the claim about the metadata CSV speaks of *)

\* (schema, object_name) of a row of the file
RowKey(row) == << row.schema, row.object_name >>

\* a call that merged into the existing file and wrote the result
MergedStep == pc' = "merged" /\ databases' = databases

\* C22: after a merge into the existing CSV, the written file has at most one
\* row per (schema, object_name); every row just extracted is in it, in the
\* place of the row that had its key; and every existing row whose key was
\* not extracted is still in it.
C22_MergeKeepsOneRowPerKey ==
    [][ MergedStep =>
          LET existing  == csv_file[1]
              extracted == to_csv(all_metadata')
              written   == csv_file'[1]
          IN  /\ \A i, j \in DOMAIN written :
                    i # j => RowKey(written[i]) # RowKey(written[j])
              /\ \A k \in DOMAIN extracted :
                    \E i \in DOMAIN written : written[i] = extracted[k]
              /\ \A k \in DOMAIN existing :
                    (\A n \in DOMAIN extracted : RowKey(extracted[n]) # RowKey(existing[k]))
                        => \E i \in DOMAIN written : written[i] = existing[k]
      ]_vars

---------------------------------------------------------------------------
(* Several dataset nodes with the selected table name *)

\* the selector is the table_name of two or more dataset nodes
SeveralMatches ==
    /\ pc = "restricted"
    /\ selected # Empty
    /\ Cardinality(DatasetMatches(g_nodes, selected[1])) >= 2

\* the result is the lineage of the node with the id t, and of no other
AnchoredOn(t) == result = Restricted(g_nodes, g_edges, LineageSet(g_edges, t))

\* C23 as claimed: whenever several dataset nodes share the selected table
\* name, the result is anchored on the first of them in the order of the
\* mapping.
C23_Original ==
    SeveralMatches => AnchoredOn(FirstMatchId(g_nodes, selected[1]))

\* C23 amended: when several dataset nodes share a selected table name other
\* than '' and 'All Tables', and ids are non-empty, the result is anchored on
\* the first of them in the order of the mapping, which is a dataset node also
\* when a job node with that table name comes before it.
C23_FirstMatchIsAnchor ==
    (/\ SeveralMatches
     /\ selected[1] # Empty
     /\ selected[1] # s_All_Tables
     /\ FirstMatchId(g_nodes, selected[1]) # Empty) =>
        /\ AnchoredOn(FirstMatchId(g_nodes, selected[1]))
        /\ NodeOf(g_nodes, FirstMatchId(g_nodes, selected[1])).type = s_dataset

\* C23 witness: two unconnected datasets carry the selected name 't', 'b'
\* before 'a' in the mapping, and only 'b' is kept
C23_Witness ==
    /\ SeveralMatches
    /\ selected = << <<"t">> >>
    /\ KeyList(g_nodes) = << <<"b">>, <<"a">> >>
    /\ g_edges = << << <<"a">>, <<"a">> >> >>
    /\ KeyList(result.nodes) = << <<"b">> >>
    /\ result.edges = Empty

---------------------------------------------------------------------------
(* Job ids and dataset ids *)

\* the type of the node with the id
TypeOf(id) == NodeOf(nodes, id).type

\* C24: no dataset reference resolves to the id of a job; so every node made
\* for a job has the type job, every node a dataset reference resolves to has
\* the type dataset, and every edge joins a dataset node and a job node.
C24_JobAndDatasetIdsApart ==
    /\ \A k \in DOMAIN events : \A r \in DOMAIN AllRefs(events) :
          ds_id_of(AllRefs(events)[r].ds) # job_id_of(events[k])
    /\ \A k \in DOMAIN events : TypeOf(job_id_of(events[k])) = s_job
    /\ \A r \in DOMAIN AllRefs(events) : TypeOf(ds_id_of(AllRefs(events)[r].ds)) = s_dataset
    /\ \A i \in DOMAIN edges :
          { TypeOf(edges[i][1]), TypeOf(edges[i][2]) } = { s_dataset, s_job }

---------------------------------------------------------------------------
(* The schema a dataset node ends with *)

\* the schema the claim C25 expects for id: that of the first reference to id,
\* in processing order, whose schema is non-empty; empty when there is none
FirstSchema(refs, id) ==
    LET idx == {i \in RefsTo(refs, id) : Truthy(schema_fields_of(refs[i].ds))}
    IN  IF idx = {} THEN Empty ELSE schema_fields_of(refs[Minimum(idx)].ds)

\* C25: in every state of the extraction, the schema_fields of each dataset
\* node is the schema of the first reference to its id, among those processed
\* so far, whose schema is non-empty, and empty when there is none; so the
\* first non-empty schema stays whatever the later references carry.
C25_FirstSchemaWins ==
    \A i \in DOMAIN nodes :
        nodes[i].type = s_dataset =>
            nodes[i].schema_fields = FirstSchema(AllRefs(events), nodes[i].id)

\* C25 witness: two references to one dataset carry different non-empty
\* schemas, and the node has the first
C25_Witness ==
    /\ pc = "returned"
    /\ Len(AllRefs(events)) = 2
    /\ ds_id_of(AllRefs(events)[1].ds) = ds_id_of(AllRefs(events)[2].ds)
    /\ schema_fields_of(AllRefs(events)[1].ds) = Schema2
    /\ schema_fields_of(AllRefs(events)[2].ds) = Schema1
    /\ NodeOf(nodes, ds_id_of(AllRefs(events)[1].ds)).type = s_dataset
    /\ NodeOf(nodes, ds_id_of(AllRefs(events)[1].ds)).schema_fields = Schema2

---------------------------------------------------------------------------
(* The result of get_lineage_subgraph against its arguments *)

RECURSIVE IsSubsequence(_, _)
\* s is t with some entries left out, the others in their order
IsSubsequence(s, t) ==
    IF s = Empty THEN TRUE
    ELSE IF t = Empty THEN FALSE
    ELSE IF Head(s) = Head(t) THEN IsSubsequence(Tail(s), Tail(t))
    ELSE IsSubsequence(s, Tail(t))

\* C26: for an input whose edge endpoints are all keys of the node mapping,
\* the returned nodes are input nodes, unchanged and in their order, the
\* returned edges are input edges in their order, and both endpoints of every
\* returned edge are keys of the returned nodes.
C26_OnlyRemoves ==
    (pc = "restricted" /\ EndpointsAreKeys) =>
        /\ IsSubsequence(result.nodes, g_nodes)
        /\ IsSubsequence(result.edges, g_edges)
        /\ \A i \in DOMAIN result.edges :
              /\ result.edges[i][1] \in Keys(result.nodes)
              /\ result.edges[i][2] \in Keys(result.nodes)

\* C26 witness: of two nodes with a loop each, the second and its loop are kept
C26_Witness ==
    /\ pc = "restricted"
    /\ EndpointsAreKeys
    /\ Len(g_nodes) = 2
    /\ Len(g_edges) = 2
    /\ g_edges[1][1] = g_nodes[1].id
    /\ g_edges[2][1] = g_nodes[2].id
    /\ result.nodes = << g_nodes[2] >>
    /\ result.edges = << g_edges[2] >>

\* C27: get_lineage_subgraph applied with the same selector to its own result
\* returns that result: same nodes, same edge list.
C27_Idempotent ==
    pc = "restricted" =>
        get_lineage_subgraph(result.nodes, result.edges, selected) = result

\* C27 witness: a result that is smaller than the input, taken on a cycle
\* through the first of two datasets with the selected name
C27_Witness ==
    /\ pc = "restricted"
    /\ selected # Empty
    /\ Cardinality(DatasetMatches(g_nodes, selected[1])) = 2
    /\ Len(g_edges) = 2
    /\ PathExists(g_edges, g_nodes[1].id, g_nodes[1].id)
    /\ Len(result.nodes) = 1
    /\ Len(result.edges) = 2

---------------------------------------------------------------------------
(* Repeated runs of the ingestion *)

\* C28: no document of a file is in the collection twice; and when a run has
\* ended, no file that has a document in the collection is still in TO.
C28_InsertedAtMostOnce ==
    /\ \A i, j \in DOMAIN collection : i # j => collection[i] # collection[j]
    /\ pc = "finished" =>
          \A i \in DOMAIN collection : collection[i].file \notin DOMAIN to_dir

---------------------------------------------------------------------------
(* The network drawn *)

\* the graph handed to create_interactive_graph is the one
\* extract_lineage_graph returned
WholeGraphDrawn ==
    /\ net # Empty
    /\ result.nodes = all_nodes
    /\ result.edges = call_extract(session_data).graph.edges

\* C29: with show_jobs disabled, create_interactive_graph on a graph returned
\* by extract_lineage_graph adds no job node, and every edge it adds to the
\* network runs between two nodes it added; no add_edge call is refused.
C29_HiddenJobsLeaveDatasetNetwork ==
    (WholeGraphDrawn /\ ~net.show_jobs) =>
        /\ ~net.raised
        /\ \A k \in DOMAIN net.nodes : NodeOf(result.nodes, net.nodes[k]).type # s_job
        /\ \A k \in DOMAIN net.edges :
              /\ net.edges[k][1] \in {net.nodes[n] : n \in DOMAIN net.nodes}
              /\ net.edges[k][2] \in {net.nodes[n] : n \in DOMAIN net.nodes}

---------------------------------------------------------------------------
(* The filter pipeline *)

\* a source system other than 'All Systems' is selected, a table offered for
\* it is chosen, and get_lineage_subgraph has returned
OfferedTableChosen ==
    /\ result # Empty
    /\ selected_source_system # Empty
    /\ selected_source_system[1] # s_All_Systems
    /\ selected[1] \in {all_nodes[i].table_name :
                          i \in {j \in DatasetNodes(all_nodes) :
                                    all_nodes[j].source_system = selected_source_system[1]}}

\* every dataset node displayed has the selected source system
DisplayedInSystem ==
    \A i \in DatasetNodes(result.nodes) :
        result.nodes[i].source_system = selected_source_system[1]

\* C30 as claimed: when a source system other than 'All Systems' is selected
\* and a table offered for it is chosen, the table's node is found in the
\* source-filtered graph and the result is its lineage there, not the
\* unfiltered graph; every dataset node displayed has the selected system.
C30_Original ==
    OfferedTableChosen =>
        /\ DatasetMatches(g_nodes, selected[1]) # {}
        /\ AnchoredOn(FirstMatchId(g_nodes, selected[1]))
        /\ DisplayedInSystem

\* C30 amended: the same for every offered table whose name is neither '' nor
\* 'All Tables'; the node found is a dataset of the selected system.  For
\* those two names the whole source-filtered graph is displayed, and every
\* dataset node displayed has the selected system all the same.
C30_OfferedTableIsFound ==
    OfferedTableChosen =>
        /\ DisplayedInSystem
        /\ (selected[1] # Empty /\ selected[1] # s_All_Tables) =>
              /\ DatasetMatches(g_nodes, selected[1]) # {}
              /\ NodeOf(g_nodes, FirstMatchId(g_nodes, selected[1])).source_system
                    = selected_source_system[1]
              /\ AnchoredOn(FirstMatchId(g_nodes, selected[1]))
        /\ (selected[1] = Empty \/ selected[1] = s_All_Tables) =>
              result = [ nodes |-> g_nodes, edges |-> g_edges ]

\* C30 witness: PostgreSQL and the lake both have a table 'orders', the
\* PostgreSQL one first; with 'Data Lake' and 'orders' chosen the lake's
\* dataset and the job that writes it are displayed, the job j4 is not
C30_Witness ==
    /\ OfferedTableChosen
    /\ session_data.events[1] = <<PipelineEvents[1], PipelineEvents[6]>>
    /\ selected_source_system[1] = s_Data_Lake
    /\ selected[1] = <<"o", "r", "d", "e", "r", "s">>
    /\ KeyList(all_nodes)[2] = <<"p", "o", "s", "t", "g", "r", "e", "s", ":", "/", "/", "d", "b", "/", "p", "u", "b", "l", "i", "c", ".", "o", "r", "d", "e", "r", "s">>
    /\ KeyList(result.nodes) = << <<"j", "o", "b", "_", "j", "1">>,
                                  <<"s", "3", ":", "/", "/", "l", "a", "k", "e", "/", "o", "r", "d", "e", "r", "s">> >>

=============================================================================
